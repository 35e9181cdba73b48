----------------------------- MODULE Services_proof -----------------------------
(***************************************************************************)
(* What is proved about the services of MCServices: the pacing, the tokens *)
(* and the reports of git providers, the reports of trackers, broadcasts   *)
(* to devices, the runs of jobs, the cache of agents and the reports of    *)
(* the stuck detector.                                                     *)
(***************************************************************************)
EXTENDS MCServices, FiniteSetTheorems, SequenceTheorems, WellFoundedInduction, TLAPS

--------------------------------------------------------------------------------
\* Paced operations keep their distance, and the requests of an operation
\* carry one token, for any number of calls, any plans and any interval.

TypeInv ==
  /\ pc \in [Call -> {"idle", "pacing", "locking", "spacing", "request", "done"}]
  /\ wait \in [Call -> Nat]
  /\ since \in 0..MinInterval /\ gap \in 0..MinInterval
  /\ DOMAIN used = Call

\* Whoever is between taking the lock and its last answer owns it.
OwnerInv == \A c \in Call : pc[c] \in {"spacing", "request"} => owner = c

\* _last_request_at is never older than the last paced start, and a caller that
\* spaces sleeps until the interval is over since that start.
PaceInv ==
  /\ since <= gap
  /\ \A c \in Call : pc[c] = "spacing" => MinInterval <= gap + wait[c]

LEMMA CappedBounds ==
  ASSUME NEW n \in Nat
  PROVE  /\ Capped(n) \in 0..MinInterval
         /\ Capped(n) = n \/ (Capped(n) = MinInterval /\ MinInterval <= n)
  BY ProviderAssumption DEF Capped

LEMMA TypeStep ==
  ASSUME TypeInv, [GitNext]_gitVars
  PROVE  TypeInv'
<1> USE ProviderAssumption DEF TypeInv
<1>1. CASE Tick
  BY <1>1, CappedBounds DEF Tick
<1>2. ASSUME NEW c \in Call, CallSync(c) \/ CallAsync(c) \/ Cancelled(c) PROVE TypeInv'
  BY <1>2 DEF CallSync, CallAsync, Cancelled
<1>3. ASSUME NEW c \in Call, Paced(c) \/ Starts(c) PROVE TypeInv'
  BY <1>3 DEF Paced, Starts
<1>4. ASSUME NEW c \in Call, Enters(c) PROVE TypeInv'
  <2>1. UNCHANGED <<since, gap, used>>
    BY <1>4 DEF Enters
  <2>2. pc' \in [Call -> {"idle", "pacing", "locking", "spacing", "request", "done"}]
    BY <1>4 DEF Enters
  <2>3. wait' \in [Call -> Nat]
    BY <1>4 DEF Enters
  <2> QED BY <2>1, <2>2, <2>3
<1>5. ASSUME NEW c \in Call, NEW a \in Answer, Answered(c, a) PROVE TypeInv'
  <2>1. UNCHANGED <<since, gap, wait>>
    BY <1>5 DEF Answered
  <2>2. DOMAIN used' = Call
    BY <1>5 DEF Answered
  <2>3. pc' = pc \/ pc' = [pc EXCEPT ![c] = "done"]
    BY <1>5 DEF Answered
  <2> QED BY <2>1, <2>2, <2>3
<1>6. CASE UNCHANGED gitVars
  BY <1>6 DEF gitVars
<1> QED BY <1>1, <1>2, <1>3, <1>4, <1>5, <1>6 DEF GitNext, Step

LEMMA OwnerStep ==
  ASSUME TypeInv, OwnerInv, [GitNext]_gitVars
  PROVE  OwnerInv'
<1> USE ProviderAssumption DEF TypeInv, OwnerInv
<1>1. CASE Tick
  BY <1>1 DEF Tick
<1>2. ASSUME NEW c \in Call, CallSync(c) \/ CallAsync(c) \/ Cancelled(c) PROVE OwnerInv'
  BY <1>2 DEF CallSync, CallAsync, Cancelled
<1>3. ASSUME NEW c \in Call, Paced(c) \/ Starts(c) PROVE OwnerInv'
  BY <1>3 DEF Paced, Starts
<1>4. ASSUME NEW c \in Call, Enters(c) PROVE OwnerInv'
  BY <1>4 DEF Enters
<1>5. ASSUME NEW c \in Call, NEW a \in Answer, Answered(c, a) PROVE OwnerInv'
  <2>1. pc[c] = "request" /\ owner = c
    BY <1>5 DEF Answered
  <2>2. \/ pc' = pc /\ owner' = owner
        \/ pc' = [pc EXCEPT ![c] = "done"] /\ owner' = None
    BY <1>5 DEF Answered
  <2> QED BY <2>1, <2>2
<1>6. CASE UNCHANGED gitVars
  BY <1>6 DEF gitVars
<1> QED BY <1>1, <1>2, <1>3, <1>4, <1>5, <1>6 DEF GitNext, Step

LEMMA PaceStep ==
  ASSUME TypeInv, OwnerInv, PaceInv, [GitNext]_gitVars
  PROVE  PaceInv'
<1> USE ProviderAssumption DEF TypeInv, PaceInv
<1>1. CASE Tick
  <2>1. /\ since' = Capped(since + 1) /\ gap' = Capped(gap + 1) /\ pc' = pc
        /\ \A c \in Call : wait'[c] = IF wait[c] > 0 THEN wait[c] - 1 ELSE 0
    BY <1>1 DEF Tick
  <2>2. since' <= gap'
    BY <2>1 DEF Capped
  <2>3. ASSUME NEW c \in Call, pc[c] = "spacing" PROVE MinInterval <= gap' + wait'[c]
    BY <2>1, <2>3 DEF Capped
  <2> QED BY <2>1, <2>2, <2>3
<1>2. ASSUME NEW c \in Call, CallSync(c) \/ CallAsync(c) \/ Cancelled(c) PROVE PaceInv'
  BY <1>2 DEF CallSync, CallAsync, Cancelled
<1>3. ASSUME NEW c \in Call, Paced(c) PROVE PaceInv'
  BY <1>3 DEF Paced
<1>4. ASSUME NEW c \in Call, Starts(c) PROVE PaceInv'
  <2>1. \A d \in Call : pc'[d] # "spacing"
    BY <1>4 DEF Starts, OwnerInv
  <2> QED BY <1>4, <2>1 DEF Starts
<1>5. ASSUME NEW c \in Call, Enters(c) PROVE PaceInv'
  <2>1. UNCHANGED <<since, gap>> /\ \A d \in Call \ {c} : pc'[d] = pc[d] /\ wait'[d] = wait[d]
    BY <1>5 DEF Enters
  <2>2. pc'[c] = "spacing" => wait'[c] = MinInterval - since
    BY <1>5 DEF Enters
  <2> QED BY <2>1, <2>2
<1>6. ASSUME NEW c \in Call, NEW a \in Answer, Answered(c, a) PROVE PaceInv'
  <2>1. UNCHANGED <<since, gap, wait>>
    BY <1>6 DEF Answered
  <2>2. pc' = pc \/ pc' = [pc EXCEPT ![c] = "done"]
    BY <1>6 DEF Answered
  <2> QED BY <2>1, <2>2
<1>7. CASE UNCHANGED gitVars
  BY <1>7 DEF gitVars
<1> QED BY <1>1, <1>2, <1>3, <1>4, <1>5, <1>6, <1>7 DEF GitNext, Step

\* A caller that leaves the spacing has slept until the interval was over.
LEMMA StartsPaced ==
  ASSUME TypeInv, PaceInv, [GitNext]_gitVars, NEW c \in Call,
         pc[c] = "spacing", pc'[c] = "request"
  PROVE  gap = MinInterval
<1> USE DEF TypeInv
<1>1. CASE Starts(c)
  BY <1>1, ProviderAssumption DEF Starts, PaceInv
<1>2. CASE Tick \/ UNCHANGED gitVars
  BY <1>2 DEF Tick, gitVars
<1>3. ASSUME NEW d \in Call, CallSync(d) \/ CallAsync(d) \/ Cancelled(d) \/ Paced(d) \/ Enters(d)
      PROVE  FALSE
  BY <1>3 DEF CallSync, CallAsync, Cancelled, Paced, Enters
<1>4. ASSUME NEW d \in Call, d # c, Starts(d) PROVE FALSE
  BY <1>4 DEF Starts
<1>5. ASSUME NEW d \in Call, NEW a \in Answer, Answered(d, a) PROVE FALSE
  <2>1. pc[d] = "request" /\ (pc' = pc \/ pc' = [pc EXCEPT ![d] = "done"])
    BY <1>5 DEF Answered
  <2> QED BY <2>1
<1> QED BY <1>1, <1>2, <1>3, <1>4, <1>5 DEF GitNext, Step

\* Two paced operations of one service never start their requests less than
\* _min_interval apart, whichever of the two paths of _rate_limit they take.
THEOREM Paces == GitSpec => RequestsPaced
<1> DEFINE Apart == \A c \in Call : pc[c] = "spacing" /\ pc'[c] = "request" => gap = MinInterval
<1>1. GitInit => TypeInv /\ OwnerInv /\ PaceInv
  BY ProviderAssumption DEF GitInit, TypeInv, OwnerInv, PaceInv
<1>2. TypeInv /\ OwnerInv /\ PaceInv /\ [GitNext]_gitVars => TypeInv' /\ OwnerInv' /\ PaceInv'
  BY TypeStep, OwnerStep, PaceStep
<1>3. TypeInv /\ PaceInv /\ [GitNext]_gitVars => [Apart]_gitVars
  BY StartsPaced
<1> QED BY <1>1, <1>2, <1>3, PTL DEF GitSpec, RequestsPaced

-----------------------------------------------------------------------------
\* Before its requests a call has used no token, during them only the current one.
TokenInv ==
  \A c \in Call :
    /\ \E t : used[c] \subseteq {t}
    /\ pc[c] \notin {"request", "done"} \/ op[c] = "handle_callback" => used[c] = {}
    /\ pc[c] = "request" => used[c] \subseteq {token}

LEMMA TokenStep ==
  ASSUME TypeInv, OwnerInv, TokenInv, [GitNext]_gitVars
  PROVE  TokenInv'
<1> USE DEF TypeInv, TokenInv
<1>1. CASE Tick \/ UNCHANGED gitVars
  BY <1>1 DEF Tick, gitVars
<1>2. ASSUME NEW c \in Call, CallSync(c) \/ CallAsync(c) \/ Cancelled(c) \/ Paced(c) \/ Starts(c)
      PROVE  TokenInv'
  <2>1. UNCHANGED <<op, used, token>>
    BY <1>2 DEF CallSync, CallAsync, Cancelled, Paced, Starts
  <2>2. /\ used[c] = {}
        /\ \E w \in {"locking", "pacing", "request", "done"} : pc' = [pc EXCEPT ![c] = w]
    BY <1>2 DEF CallSync, CallAsync, Cancelled, Paced, Starts
  <2> QED BY <2>1, <2>2
<1>3. ASSUME NEW c \in Call, Enters(c) PROVE TokenInv'
  <2>1. UNCHANGED <<op, used, token>> /\ used[c] = {}
    BY <1>3 DEF Enters
  <2>2. \A d \in Call \ {c} : pc'[d] = pc[d]
    BY <1>3 DEF Enters
  <2> QED BY <2>1, <2>2
<1>4. ASSUME NEW c \in Call, NEW a \in Answer, Answered(c, a) PROVE TokenInv'
  <2>1. pc[c] = "request" /\ UNCHANGED op
    BY <1>4 DEF Answered
  <2>2. \A d \in Call \ {c} : pc'[d] = pc[d] /\ used'[d] = used[d] /\ pc[d] # "request"
    BY <1>4, <2>1, ProviderAssumption DEF Answered, OwnerInv
  <2>3. CASE op[c] = "handle_callback"
    <3>1. used'[c] = {}
      BY <1>4, <2>3 DEF Answered
    <3> QED BY <2>1, <2>2, <3>1
  <2>4. CASE op[c] # "handle_callback"
    <3>1. used'[c] \subseteq {token} /\ token' = token
      BY <1>4, <2>1, <2>4 DEF Answered
    <3>2. pc'[c] \in {"request", "done"}
      BY <1>4 DEF Answered
    <3> QED BY <2>1, <2>2, <2>4, <3>1, <3>2
  <2> QED BY <2>3, <2>4
<1> QED BY <1>1, <1>2, <1>3, <1>4 DEF GitNext, Step

\* Whatever operations overlap, and whenever a sign-in replaces the token, all
\* requests of one operation carry the same one: each runs under the service's lock.
THEOREM OneToken == GitSpec => []OneTokenPerCall
<1>1. GitInit => TypeInv /\ OwnerInv /\ TokenInv
  BY ProviderAssumption DEF GitInit, TypeInv, OwnerInv, TokenInv
<1>2. TypeInv /\ OwnerInv /\ TokenInv /\ [GitNext]_gitVars => TypeInv' /\ OwnerInv' /\ TokenInv'
  BY TypeStep, OwnerStep, TokenStep
<1>3. TokenInv => OneTokenPerCall
  <2> SUFFICES ASSUME TokenInv, NEW c \in Call PROVE Cardinality(used[c]) <= 1
    BY DEF OneTokenPerCall
  <2>1. PICK t : used[c] \subseteq {t}
    BY DEF TokenInv
  <2>2. IsFiniteSet({t}) /\ Cardinality({t}) = 1
    BY FS_Singleton
  <2> QED BY <2>1, <2>2, FS_Subset
<1> QED BY <1>1, <1>2, <1>3, PTL DEF GitSpec

-----------------------------------------------------------------------------
(* Reports of git providers.                                               *)

\* What asks for a change is the last request of its operation: the others find what
\* it works on, and their errors are the operation's own.
Changing == {<<Asks>>, <<Refuses>>, <<Broken>>, <<Then, Asks>>, <<Then, Then, Asks>>}

LEMMA ChangesLast ==
  ASSUME NEW p \in Changing
  PROVE  /\ Len(p) \in 1..3
         /\ \A i \in 1..Len(p) : i < Len(p) => p[i] = Then
         /\ p[Len(p)] \in {Asks, Refuses, Broken}
<1>1. CASE p \in {<<Asks>>, <<Refuses>>, <<Broken>>}
  BY <1>1
<1>2. CASE p = <<Then, Asks>>
  BY <1>2
<1>3. CASE p = <<Then, Then, Asks>>
  BY <1>3
<1> QED BY <1>1, <1>2, <1>3 DEF Changing

LEMMA TogetherGives ==
  ASSUME NEW parts, NEW o \in Mutating,
         \E f \in parts : o \in DOMAIN f,
         \A f \in parts : o \in DOMAIN f => f[o] \in Changing
  PROVE  Together(parts)[o] \in Changing
<1> DEFINE f == CHOOSE f \in parts : o \in DOMAIN f
<1>1. f \in parts /\ o \in DOMAIN f
  OBVIOUS
<1>2. o \in UNION {DOMAIN g : g \in parts}
  BY <1>1
<1>3. Together(parts)[o] = f[o]
  BY <1>2 DEF Together
<1> QED BY <1>1, <1>3

LEMMA RestChanges ==
  ASSUME NEW s \in Rest, NEW o \in Mutating
  PROVE  Plans[s][o] \in Changing
<1> USE DEF Changing, One, Mutating, RepositoryOps, PullOps, IssueOps
<1>1. \A g \in {GithubRepositories, GithubPulls, GithubIssues, GithubContent, GithubTasks, GithubCallback,
                GithubWebhooks, GithubAccount} :
        o \in DOMAIN g => g[o] \in Changing
  BY DEF GithubRepositories, GithubPulls, GithubIssues, GithubContent, GithubTasks,
         GithubCallback, GithubWebhooks, GithubAccount
<1>2. \E g \in {GithubPulls, GithubIssues, GithubContent, GithubWebhooks} : o \in DOMAIN g
  BY DEF GithubPulls, GithubIssues, GithubContent, GithubWebhooks
<1>3. \A g \in {GitlabRepositories, GitlabPulls, GitlabIssues, GitlabContent, GitlabTasks, GitlabCallback,
                GitlabWebhooks, GitlabAccount} :
        o \in DOMAIN g => g[o] \in Changing
  BY DEF GitlabRepositories, GitlabPulls, GitlabIssues, GitlabContent, GitlabTasks,
         GitlabCallback, GitlabWebhooks, GitlabAccount
<1>4. \E g \in {GitlabPulls, GitlabIssues, GitlabContent, GitlabWebhooks} : o \in DOMAIN g
  BY DEF GitlabPulls, GitlabIssues, GitlabContent, GitlabWebhooks
<1>5. \A g \in {AzureRepositories, AzurePulls, AzureIssues, AzureContent, AzureTasks, AzureCallback,
                AzureWebhooks, AzureAccount} :
        o \in DOMAIN g => g[o] \in Changing
  BY DEF AzureRepositories, AzurePulls, AzureIssues, AzureContent, AzureTasks, AzureCallback,
         AzureWebhooks, AzureAccount
<1>6. \E g \in {AzurePulls, AzureIssues, AzureWebhooks} : o \in DOMAIN g
  BY DEF AzurePulls, AzureIssues, AzureWebhooks
<1>7. \A g \in {BitbucketRepositories, BitbucketPulls, BitbucketIssues, BitbucketContent, BitbucketTasks,
                BitbucketCallback, BitbucketWebhooks, BitbucketAccount} :
        o \in DOMAIN g => g[o] \in Changing
  BY DEF BitbucketRepositories, BitbucketPulls, BitbucketIssues, BitbucketContent, BitbucketTasks,
         BitbucketCallback, BitbucketWebhooks, BitbucketAccount
<1>8. \E g \in {BitbucketPulls, BitbucketIssues, BitbucketWebhooks} : o \in DOMAIN g
  BY DEF BitbucketPulls, BitbucketIssues, BitbucketWebhooks
<1>9. \A g \in {ForgejoRepositories, ForgejoPulls, ForgejoIssues, ForgejoContent, ForgejoTasks, ForgejoCallback,
                ForgejoWebhooks, ForgejoAccount} :
        o \in DOMAIN g => g[o] \in Changing
  BY DEF ForgejoRepositories, ForgejoPulls, ForgejoIssues, ForgejoContent, ForgejoTasks,
         ForgejoCallback, ForgejoWebhooks, ForgejoAccount
<1>10. \E g \in {ForgejoPulls, ForgejoIssues, ForgejoWebhooks} : o \in DOMAIN g
  BY DEF ForgejoPulls, ForgejoIssues, ForgejoWebhooks
<1> HIDE DEF Changing, One, Mutating, RepositoryOps, PullOps, IssueOps
<1>11. CASE s = "github"
  <2>1. Together({GithubRepositories, GithubPulls, GithubIssues, GithubContent, GithubTasks, GithubCallback,
                GithubWebhooks, GithubAccount})[o] \in Changing
    BY <1>1, <1>2, TogetherGives, Zenon
  <2> QED BY <1>11, <2>1 DEF Plans, Rest
<1>12. CASE s = "gitlab"
  <2>1. Together({GitlabRepositories, GitlabPulls, GitlabIssues, GitlabContent, GitlabTasks, GitlabCallback,
                GitlabWebhooks, GitlabAccount})[o] \in Changing
    BY <1>3, <1>4, TogetherGives, Zenon
  <2> QED BY <1>12, <2>1 DEF Plans, Rest
<1>13. CASE s = "azure_devops"
  <2>1. Together({AzureRepositories, AzurePulls, AzureIssues, AzureContent, AzureTasks, AzureCallback,
                AzureWebhooks, AzureAccount})[o] \in Changing
    BY <1>5, <1>6, TogetherGives, Zenon
  <2> QED BY <1>13, <2>1 DEF Plans, Rest
<1>14. CASE s = "bitbucket"
  <2>1. Together({BitbucketRepositories, BitbucketPulls, BitbucketIssues, BitbucketContent, BitbucketTasks,
                BitbucketCallback, BitbucketWebhooks, BitbucketAccount})[o] \in Changing
    BY <1>7, <1>8, TogetherGives, Zenon
  <2> QED BY <1>14, <2>1 DEF Plans, Rest
<1>15. CASE s = "forgejo"
  <2>1. Together({ForgejoRepositories, ForgejoPulls, ForgejoIssues, ForgejoContent, ForgejoTasks, ForgejoCallback,
                ForgejoWebhooks, ForgejoAccount})[o] \in Changing
    BY <1>9, <1>10, TogetherGives, Zenon
  <2> QED BY <1>15, <2>1 DEF Plans, Rest
<1> QED BY <1>11, <1>12, <1>13, <1>14, <1>15 DEF Rest

LEMMA LibraryChanges ==
  ASSUME NEW s \in Library, NEW o \in Mutating
  PROVE  Plans[s][o] \in Changing
<1>1. /\ o \in (PacedOps \ UserOps) \cup {"handle_callback"} /\ o \in PacedOps \cup UnpacedOps
      /\ o \notin {"get_repo", "get_authenticated_user", "get_repos", "search_code", "get_issue",
                   "get_file_content", "get_suggested_tasks", "handle_callback", "validate_token"}
  BY DEF Mutating, PacedOps, PullOps, IssueOps, WebhookOps, UserOps
<1>2. GithubLibrary[o] \in {<<Then, Asks>>, <<Then, Then, Asks>>}
  BY <1>1 DEF GithubLibrary
<1>3. GitlabLibrary[o] \in {<<Then, Asks>>, <<Then, Then, Asks>>}
  BY <1>1 DEF GitlabLibrary
<1>4. CASE s = "PyGithub"
  BY <1>2, <1>4 DEF Plans, Library, Rest, Changing
<1>5. CASE s = "python-gitlab"
  BY <1>3, <1>5 DEF Plans, Library, Rest, Changing
<1> QED BY <1>4, <1>5 DEF Library

\* How the services read an answer to a change.
LEMMA Readings ==
  ASSUME NEW s \in Services, NEW o \in Mutating, NEW a \in Answer
  PROVE  /\ Reads[s][o][a] \in {"ok", "retryable", "fatal", "other"}
         /\ Reads[s][o][a] = "ok" <=> a = "ok"
         /\ s \in Rest /\ Reads[s][o][a] = "fatal" => a = "client"
<1>1. /\ o \in PacedOps \cup UnpacedOps
      /\ o \notin {"get_file_content", "search_code", "get_repos"}
  BY DEF Mutating, PacedOps, PullOps, IssueOps, WebhookOps
<1>2. /\ GithubRest[a] \in {"ok", "retryable", "fatal", "other"}
      /\ GithubRest[a] = "ok" <=> a = "ok"
      /\ GithubRest[a] = "fatal" => a = "client"
  BY DEF GithubRest, Answer
<1>3. CASE s \in Rest
  <2>1. Always(GithubRest)[o] = GithubRest
    BY <1>1 DEF Always
  <2>2. Reads[s][o] = GithubRest
    BY <1>1, <1>3, <2>1
       DEF Reads, Rest, GitlabRest, AzureRest, BitbucketRest, ForgejoRest, Always
  <2> QED BY <1>2, <2>2
<1>4. CASE s = "PyGithub"
  <2>1. Reads[s][o] = GithubClient[o] /\ s \notin Rest
    BY <1>4 DEF Reads, Rest, Library
  <2>2. GithubClient[o][a] \in {"ok", "retryable", "fatal", "other"}
        /\ (GithubClient[o][a] = "ok" <=> a = "ok")
    BY <1>1 DEF GithubClient, Answer
  <2> QED BY <2>1, <2>2
<1>5. CASE s = "python-gitlab"
  <2>1. Reads[s][o] = GitlabClient[o] /\ s \notin Rest
    BY <1>5 DEF Reads, Rest, Library
  <2>2. GitlabClient[o][a] \in {"ok", "fatal"} /\ (GitlabClient[o][a] = "ok" <=> a = "ok")
    BY <1>1 DEF GitlabClient, Answer
  <2> QED BY <2>1, <2>2
<1> QED BY <1>3, <1>4, <1>5, ServicesAssumption DEF Library

\* Before it is done a change has not been made, and afterwards its report agrees.
ReportInv ==
  /\ service \in Services /\ op \in [Call -> PacedOps \cup UnpacedOps]
  /\ DOMAIN at = Call /\ DOMAIN result = Call /\ DOMAIN made = Call
  /\ \A c \in Call : op[c] \in Mutating /\ pc[c] # "done" =>
        made[c] = 0 /\ result[c] = None /\ at[c] \in 1..Len(Plan(c))
  /\ ReportsAgree

\* A request before the change leaves nothing made, and the change is answered last.
LEMMA ChangeAnswered ==
  ASSUME TypeInv, ReportInv, NEW c \in Call, op[c] \in Mutating, NEW a \in Answer, Answered(c, a)
  PROVE  \/ /\ pc' = pc /\ result' = result /\ made'[c] = 0
            /\ at'[c] \in 1..Len(Plan(c))
         \/ /\ pc' = [pc EXCEPT ![c] = "done"] /\ made'[c] \in {0, 1}
            /\ result'[c] = "ok" => made'[c] = 1
            /\ result'[c] \in {"fatal", "false"} /\ service \in Rest => made'[c] = 0
<1> DEFINE k == Reads[service][op[c]][a]
           n == Len(Plan(c))
<1>1. /\ k \in {"ok", "retryable", "fatal", "other"}
      /\ k = "ok" <=> a = "ok"
      /\ service \in Rest /\ k = "fatal" => a = "client"
  BY Readings DEF ReportInv
<1>2. pc[c] = "request" /\ at[c] \in 1..n /\ made[c] = 0 /\ result[c] = None
  BY DEF Answered, ReportInv
<1>3. /\ n \in 1..3
      /\ at[c] < n => Plan(c)[at[c]] = Then
      /\ at[c] = n => Plan(c)[at[c]] \in {Asks, Refuses, Broken}
  <2>1. Plan(c) \in Changing
    BY RestChanges, LibraryChanges, ServicesAssumption DEF ReportInv, Plan
  <2> QED BY <1>2, <2>1, ChangesLast
<1>4. PICK m \in CASE op[c] \notin Mutating \/ at[c] < n \/ a \in {"limited", "client"} -> {0}
                   [] op[c] \in Mutating /\ at[c] = n /\ a = "ok" -> {1}
                   [] OTHER -> {0, 1} : made' = [made EXCEPT ![c] = @ + m]
  BY DEF Answered
<1>5. /\ m \in {0, 1} /\ made'[c] = m
      /\ at[c] < n \/ a \in {"limited", "client"} => m = 0
      /\ at[c] = n /\ a = "ok" => m = 1
  <2>1. m \in {0, 1} /\ (at[c] < n \/ a \in {"limited", "client"} => m = 0)
        /\ (at[c] = n /\ a = "ok" => m = 1)
    BY <1>4, <1>2, <1>3
  <2> QED BY <1>2, <1>4, <2>1 DEF ReportInv
<1>6. PICK r \in Outcomes(c, k) :
        LET to == at[c] + 1 + (IF r = "over" THEN Plan(c)[at[c]].rest ELSE 0)
            goesOn == r \in {"next", "over"} /\ to <= n
        IN IF goesOn
           THEN /\ at' = [at EXCEPT ![c] = to]
                /\ UNCHANGED <<pc, owner, result>>
           ELSE /\ pc' = [pc EXCEPT ![c] = "done"]
                /\ owner' = None
                /\ result' = [result EXCEPT ![c] = IF r \in {"next", "over"} THEN "ok" ELSE r]
                /\ UNCHANGED at
  BY DEF Answered
<1>7. CASE at[c] < n
  <2>1. r \in {"next", "retryable", "fatal", "other"}
    BY <1>1, <1>3, <1>6, <1>7 DEF Outcomes, Then, Asks
  <2>2. CASE r = "next"
    <3>1. at' = [at EXCEPT ![c] = at[c] + 1] /\ pc' = pc /\ result' = result
      BY <1>2, <1>3, <1>6, <1>7, <2>2
    <3> QED BY <1>2, <1>3, <1>5, <1>7, <3>1 DEF ReportInv
  <2>3. CASE r # "next"
    <3>1. pc' = [pc EXCEPT ![c] = "done"] /\ result' = [result EXCEPT ![c] = r]
      BY <1>6, <2>1, <2>3
    <3> QED BY <1>5, <1>7, <2>1, <2>3, <3>1 DEF ReportInv
  <2> QED BY <2>2, <2>3
<1>8. CASE at[c] = n
  <2>1. /\ r \in {"ok", "retryable", "fatal", "other", "false"}
        /\ r = "ok" => k = "ok"
        /\ r \in {"fatal", "false"} => k = "fatal"
    BY <1>1, <1>3, <1>6, <1>8 DEF Outcomes, Asks, Refuses, Broken
  <2>2. pc' = [pc EXCEPT ![c] = "done"] /\ result' = [result EXCEPT ![c] = r]
    BY <1>6, <2>1
  <2> QED BY <1>1, <1>5, <1>8, <2>1, <2>2 DEF ReportInv
<1> QED BY <1>2, <1>3, <1>7, <1>8

LEMMA ReportStep ==
  ASSUME TypeInv, ReportInv, [GitNext]_gitVars
  PROVE  ReportInv'
<1> USE DEF TypeInv
<1>1. CASE Tick \/ UNCHANGED gitVars
  BY <1>1 DEF Tick, gitVars, ReportInv, ReportsAgree, Plan
<1>2. ASSUME NEW c \in Call, CallSync(c) \/ CallAsync(c) \/ Paced(c) \/ Enters(c) \/ Starts(c)
      PROVE  ReportInv'
  <2>1. UNCHANGED <<op, service, at, made, result>>
    BY <1>2 DEF CallSync, CallAsync, Paced, Enters, Starts
  <2>2. pc[c] # "done" /\ \A d \in Call \ {c} : pc'[d] = pc[d]
    BY <1>2 DEF CallSync, CallAsync, Paced, Enters, Starts
  <2> QED BY <2>1, <2>2 DEF ReportInv, ReportsAgree, Plan
<1>3. ASSUME NEW c \in Call, Cancelled(c) PROVE ReportInv'
  <2>1. /\ UNCHANGED <<op, service, at, made>> /\ result' = [result EXCEPT ![c] = "cancelled"]
        /\ pc[c] = "pacing" /\ pc' = [pc EXCEPT ![c] = "done"]
    BY <1>3 DEF Cancelled
  <2> QED BY <2>1 DEF ReportInv, ReportsAgree, Plan
<1>4. ASSUME NEW c \in Call, NEW a \in Answer, Answered(c, a) PROVE ReportInv'
  <2>1. UNCHANGED <<op, service>>
    BY <1>4 DEF Answered
  <2>2. DOMAIN at' = Call /\ DOMAIN result' = Call /\ DOMAIN made' = Call
    BY <1>4 DEF Answered, ReportInv
  <2>3. \A d \in Call \ {c} : /\ pc'[d] = pc[d] /\ at'[d] = at[d]
                              /\ made'[d] = made[d] /\ result'[d] = result[d]
    BY <1>4 DEF Answered, ReportInv
  <2>4. CASE op[c] \in Mutating
    <3>1. pc[c] = "request" /\ result[c] = None
      BY <1>4, <2>4 DEF Answered, ReportInv
    <3>2. CASE pc' = pc /\ result' = result /\ made'[c] = 0 /\ at'[c] \in 1..Len(Plan(c))
      <4>1. \A d \in Call : op[d] \in Mutating /\ pc'[d] # "done" =>
              made'[d] = 0 /\ result'[d] = None /\ at'[d] \in 1..Len(Plan(d))
        BY <2>3, <3>1, <3>2 DEF ReportInv
      <4>2. ReportsAgree'
        BY <2>1, <2>3, <3>1, <3>2 DEF ReportInv, ReportsAgree, None
      <4> QED BY <2>1, <2>2, <4>1, <4>2 DEF ReportInv, Plan
    <3>3. CASE /\ pc'[c] = "done" /\ made'[c] \in {0, 1}
               /\ result'[c] = "ok" => made'[c] = 1
               /\ result'[c] \in {"fatal", "false"} /\ service \in Rest => made'[c] = 0
      BY <2>1, <2>2, <2>3, <3>3 DEF ReportInv, ReportsAgree, Plan
    <3> QED BY <1>4, <2>4, <3>2, <3>3, ChangeAnswered
  <2>5. CASE op[c] \notin Mutating
    BY <2>1, <2>2, <2>3, <2>5 DEF ReportInv, ReportsAgree, Plan
  <2> QED BY <2>4, <2>5
<1> QED BY <1>1, <1>2, <1>3, <1>4 DEF GitNext, Step

-----------------------------------------------------------------------------
(* Reports of trackers.                                                    *)

HttpLibrary == {"aiohttp", "urllib", "none"}

\* A response that is neither refused nor lost comes from a request with credentials,
\* and where its body is the result, or its service says an error with its status, the
\* request was applied.
LEMMA Applied ==
  ASSUME NEW t, NEW r \in T!Responses(t), r.status \notin {"refused", "lost"}
  PROVE  /\ t \in credentials /\ http # "none"
         /\ r.status = "empty" => t = "jira"
         /\ t = "jira" \/ r.body = "result" => r.applied
<1>1. /\ r \in T!Response /\ r.status \in {"ok", "empty"}
      /\ r.body \in {"result", "unsuccessful", "errors", "other", "text"}
  BY DEF T!Responses, T!Response
<1>2. /\ r.status = "empty" => t = "jira" /\ r.applied
      /\ r.body = "unsuccessful" => t # "jira"
      /\ r.body = "errors" => t # "jira"
      /\ t \in credentials /\ http # "none"
  BY <1>1 DEF T!Responses, T!Response
<1>3. r.status = "ok" /\ r.body \notin {"unsuccessful", "errors"} => r.applied
  BY <1>1 DEF T!Response
<1> QED BY <1>1, <1>2, <1>3

\* What each client takes for a result is one.
LEMMA ResultsAreRead ==
  ASSUME http \in HttpLibrary, NEW t, NEW r \in T!Responses(t)
  PROVE  /\ T!JiraSent(r) = "result" => r.status = "ok" /\ r.body = "result"
         /\ T!JiraSent(r) # "raises" /\ http # "aiohttp" => r.status \notin {"refused", "lost"}
         /\ T!LinearData(r) = "result" => r.status \notin {"refused", "lost"} /\ r.body = "result"
         /\ T!SlackAnswer(r) = "result" => r.status \notin {"refused", "lost"} /\ r.body = "result"
<1>1. /\ r.status \in {"ok", "empty", "refused", "lost"}
      /\ r.body = "result" => r.status # "refused"
      /\ http = "none" => r.status = "lost"
      /\ r.status = "lost" => r.body = "text"
  BY DEF T!Responses, T!Response
<1>2. T!Unread(r) <=> r.status = "lost" \/ (http = "urllib" /\ r.status = "refused")
  BY DEF T!Unread
<1> QED BY <1>1, <1>2 DEF HttpLibrary, T!JiraSent, T!JiraRead, T!LinearData, T!LinearAnswer,
                         T!SlackAnswer

\* What was reported last agrees with what the service did.
TrackerInv == http \in HttpLibrary /\ T!ReportedIsApplied

LEMMA TrackersStep ==
  ASSUME TrackerInv, [T!TrackersNext]_trackerVars
  PROVE  TrackerInv'
<1> USE DEF TrackerInv
<1>1. ASSUME NEW o, NEW said, NEW r, T!Ends(o, said, r)
      PROVE  http' = http /\ latest'.op = o /\ latest'.report = said /\ latest'.applied = r.applied
  BY <1>1 DEF T!Ends
<1>2. ASSUME NEW t, NEW name, NEW helper, T!Reads(t, name, helper) PROVE TrackerInv'
  <2>1. PICK r : T!Ends(<<t, name>>, T!Found(T!Decoded(helper, r)), r)
    BY <1>2 DEF T!Reads
  <2>2. T!Found(T!Decoded(helper, r)) # "made"
    BY DEF T!Found
  <2> QED BY <2>1, <2>2, <1>1 DEF T!ReportedIsApplied
<1>3. ASSUME NEW t, NEW helper, T!Exchanges(t, helper) PROVE TrackerInv'
  <2>1. \E said, r : T!Ends(<<t, "exchange_code">>, said, r)
    BY <1>3 DEF T!Exchanges
  <2>2. latest'.op[2] = "exchange_code" /\ http' = http
    BY <2>1, <1>1
  <2> QED BY <2>2 DEF T!ReportedIsApplied
<1>4. ASSUME NEW t, NEW name, NEW said, NEW r, T!Ends(<<t, name>>, said, r), UNCHANGED credentials,
             said = "made" =>
               \/ t = "jira" /\ name \in {"transition_issue", "update_issue"} /\ http = "aiohttp"
               \/ r.applied /\ t \in credentials
      PROVE  TrackerInv'
  <2>1. /\ http' = http /\ latest'.op = <<t, name>>
        /\ latest'.report = said /\ latest'.applied = r.applied
    BY <1>4, <1>1
  <2> QED BY <2>1, <1>4 DEF T!ReportedIsApplied, T!Trusting
<1>5. CASE T!JiraCreateIssue \/ T!JiraCreateComment
  <2>1. PICK r \in T!Responses("jira"), name \in {"create_issue", "create_comment"},
             said \in {"made", "blank", "raised", "refused"} :
          /\ T!Ends(<<"jira", name>>, said, r)
          /\ said = "made" => T!JiraSent(r) = "result"
    BY <1>5 DEF T!JiraCreateIssue, T!JiraCreateComment
  <2>2. UNCHANGED credentials
    BY <1>5 DEF T!JiraCreateIssue, T!JiraCreateComment
  <2> QED BY <2>1, <2>2, <1>4, Applied, ResultsAreRead
<1>6. CASE T!JiraTransitionIssue \/ T!JiraUpdateIssue
  <2>1. PICK r \in T!Responses("jira"), name \in {"transition_issue", "update_issue"},
             said \in {"made", "blank", "raised", "refused"} :
          /\ T!Ends(<<"jira", name>>, said, r)
          /\ said = "made" => T!JiraSent(r) # "raises"
    BY <1>6 DEF T!JiraTransitionIssue, T!JiraUpdateIssue
  <2>2. UNCHANGED credentials
    BY <1>6 DEF T!JiraTransitionIssue, T!JiraUpdateIssue
  <2> QED BY <2>1, <2>2, <1>4, Applied, ResultsAreRead
<1>7. ASSUME NEW name, T!Mutates(name) PROVE TrackerInv'
  <2>1. PICK r \in T!Responses("linear"), said \in {"made", "blank", "raised", "refused"} :
          /\ T!Ends(<<"linear", name>>, said, r)
          /\ said = "made" => T!LinearData(r) = "result"
    BY <1>7 DEF T!Mutates
  <2>2. UNCHANGED credentials
    BY <1>7 DEF T!Mutates
  <2> QED BY <2>1, <2>2, <1>4, Applied, ResultsAreRead
<1>8. ASSUME NEW name, T!Posts(name) PROVE TrackerInv'
  <2>1. UNCHANGED credentials
    BY <1>8 DEF T!Posts
  <2>2. CASE "slack" \notin credentials
    BY <1>8, <2>1, <2>2, <1>4 DEF T!Posts
  <2>3. CASE "slack" \in credentials
    <3>1. PICK r \in T!Responses("slack"), said \in {"made", "blank", "raised", "refused"} :
            /\ T!Ends(<<"slack", name>>, said, r)
            /\ said = "made" => T!SlackAnswer(r) = "result"
      BY <1>8, <2>3 DEF T!Posts
    <3> QED BY <3>1, <2>1, <1>4, Applied, ResultsAreRead
  <2> QED BY <2>2, <2>3
<1>9. CASE UNCHANGED trackerVars
  BY <1>9 DEF trackerVars, T!ReportedIsApplied, T!Trusting
<1>10. CASE \/ T!JiraListProjects \/ T!JiraGetIssue \/ T!JiraSearch \/ T!JiraListComments
            \/ T!JiraGetTransitions \/ T!JiraSuggestedTasks \/ T!LinearListTeams
            \/ T!LinearListIssues \/ T!LinearGetIssue \/ T!LinearListComments
            \/ T!LinearSuggestedTasks
  BY <1>10, <1>2 DEF T!JiraListProjects, T!JiraGetIssue, T!JiraSearch, T!JiraListComments,
       T!JiraGetTransitions, T!JiraSuggestedTasks, T!LinearListTeams, T!LinearListIssues,
       T!LinearGetIssue, T!LinearListComments, T!LinearSuggestedTasks
<1>11. CASE T!JiraExchangeCode \/ T!LinearExchangeCode
  BY <1>11, <1>3 DEF T!JiraExchangeCode, T!LinearExchangeCode
<1>12. CASE T!LinearCreateIssue \/ T!LinearUpdateIssue \/ T!LinearCreateComment
  BY <1>12, <1>7 DEF T!LinearCreateIssue, T!LinearUpdateIssue, T!LinearCreateComment
<1>13. CASE \/ T!SlackSendMessage \/ T!SlackSendEphemeral \/ T!SlackUpdateMessage
            \/ T!SlackUploadFile \/ T!SlackInteractiveResolve \/ T!SlackResolutionStatus
  BY <1>13, <1>8 DEF T!SlackSendMessage, T!SlackSendEphemeral, T!SlackUpdateMessage,
       T!SlackUploadFile, T!SlackInteractiveResolve, T!SlackResolutionStatus
<1> QED BY <1>5, <1>6, <1>9, <1>10, <1>11, <1>12, <1>13 DEF T!TrackersNext

-----------------------------------------------------------------------------
(* Broadcasts to devices.                                                  *)

\* While a broadcast waits for a device, what has been reachable since it began was
\* offered the message or stands at or after the next key of the iteration, unless the
\* order has changed; and once there is no next key, it was offered the message.
Waits(b) ==
  /\ target[b] \in offered[b]
  /\ steady[b] \subseteq Device
  /\ \A d \in steady[b] : D!Reachable(nodes, info, d)
  /\ cursor[b] = {} => steady[b] \subseteq offered[b]
  /\ ~changed[b] => \A d \in steady[b] \ offered[b] : \E k \in 1..Len(nodes) :
        nodes[k] = d /\ \E j \in 1..k : nodes[j] \in cursor[b]

BroadcastInv ==
  /\ DOMAIN dat = {0, 1} /\ DOMAIN target = {0, 1} /\ DOMAIN cursor = {0}
  /\ DOMAIN offered = {0} /\ DOMAIN changed = {0} /\ DOMAIN steady = {0}
  /\ dat[0] = "sending" => Waits(0)

\* The first device ahead is the only one that the iteration passes over.
LEMMA SendsToFirst ==
  ASSUME NEW ahead \in SUBSET (1..Len(nodes)), D!SendToFirst(0, ahead),
         DOMAIN target = {0, 1}, DOMAIN cursor = {0}, DOMAIN offered = {0}
  PROVE  /\ target'[0] \in offered'[0] /\ offered[0] \subseteq offered'[0]
         /\ \A k \in ahead : \/ nodes[k] \in offered'[0]
                             \/ cursor'[0] # {} /\ \E j \in 1..k : nodes[j] \in cursor'[0]
<1>1. PICK i \in ahead :
        /\ \A j \in ahead : i <= j
        /\ target'[0] = nodes[i] /\ offered'[0] = offered[0] \cup {nodes[i]}
        /\ cursor'[0] = IF i = Len(nodes) THEN {} ELSE {nodes[i + 1]}
  BY DEF D!SendToFirst
<1>2. ASSUME NEW k \in ahead, k # i PROVE i # Len(nodes) /\ i + 1 \in 1..k
  <2>1. i \in 1..Len(nodes) /\ k \in 1..Len(nodes) /\ i <= k
    BY <1>1
  <2> QED BY <2>1, <1>2
<1> QED BY <1>1, <1>2

\* Who is reachable is still so when another's send is over.
LEMMA StillReachable ==
  ASSUME NEW d \in Device, D!Reachable(nodes, info, d), NEW lost \in BOOLEAN, d # target[0]
  PROVE  D!Reachable(nodes, D!AfterSend(0, lost), d)
<1>1. D!AfterSend(0, lost)[d] = info[d]
  BY DEF D!AfterSend
<1> QED BY <1>1 DEF D!Reachable

LEMMA ReachesStep ==
  ASSUME BroadcastInv, NEW lost \in BOOLEAN, dat[0] = "sending",
         D!Ahead(cursor[0], D!AfterSend(0, lost)) = {}, ~changed[0] \/ cursor[0] = {}
  PROVE  steady[0] \subseteq offered[0]
<1> SUFFICES ASSUME NEW d \in steady[0], d \notin offered[0] PROVE FALSE
  OBVIOUS
<1>1. Waits(0)
  BY DEF BroadcastInv
<1>2. PICK k \in 1..Len(nodes) : nodes[k] = d /\ \E j \in 1..k : nodes[j] \in cursor[0]
  BY <1>1 DEF Waits
<1>3. D!Reachable(nodes, D!AfterSend(0, lost), d)
  BY <1>1, StillReachable DEF Waits
<1> QED BY <1>2, <1>3 DEF D!Ahead

\* A change of the table.
LEMMA TableStep ==
  ASSUME BroadcastInv, NEW list, NEW table, D!Becomes(list, table),
         dat[0] = dat'[0], DOMAIN dat' = {0, 1}, DOMAIN target' = {0, 1},
         target'[0] = target[0], UNCHANGED <<cursor, offered>>
  PROVE  BroadcastInv'
<1>1. /\ DOMAIN changed' = {0} /\ DOMAIN steady' = {0} /\ nodes' = list
      /\ changed'[0] <=> dat[0] = "sending" /\ (changed[0] \/ list # nodes)
      /\ steady'[0] = {d \in steady[0] : dat[0] = "sending" /\ D!Reachable(list, table, d)}
      /\ \A d \in Device : info'[d] = IF D!Contains(list, d) THEN table[d] ELSE D!Forgotten
  BY DEF D!Becomes
<1>2. ASSUME dat[0] = "sending" PROVE Waits(0)'
  <2>1. Waits(0)
    BY <1>2 DEF BroadcastInv
  <2>2. steady'[0] \subseteq steady[0] /\ (~changed'[0] => ~changed[0] /\ nodes' = nodes)
    BY <1>1, <1>2
  <2>3. \A d \in steady'[0] : D!Reachable(list, info', d)
    BY <1>1, <2>1 DEF Waits, D!Reachable
  <2> QED BY <1>1, <2>1, <2>2, <2>3 DEF Waits
<1> QED BY <1>1, <1>2 DEF BroadcastInv

LEMMA BroadcastStep ==
  ASSUME BroadcastInv, [D!DeviceNext]_nodeVars
  PROVE  /\ BroadcastInv'
         /\ dat[0] = "sending" /\ dat'[0] = "idle" => steady[0] \subseteq offered[0]
<1> DEFINE Goal ==
      BroadcastInv' /\ (dat[0] = "sending" /\ dat'[0] = "idle" => steady[0] \subseteq offered[0])
<1>1. ASSUME NEW list, NEW table, D!Becomes(list, table), UNCHANGED <<dat, target, cursor, offered>>
      PROVE  Goal
  BY <1>1, TableStep DEF BroadcastInv
<1>2. ASSUME NEW d, D!Register(d) \/ D!Unregister(d) \/ D!Heartbeat(d) \/ D!CheckHeartbeats(d)
      PROVE  Goal
  <2>1. UNCHANGED <<dat, target, cursor, offered>> /\ \E list, table : D!Becomes(list, table)
    BY <1>2 DEF D!Register, D!Unregister, D!Heartbeat, D!CheckHeartbeats, D!taskVars
  <2> QED BY <2>1, <1>1
<1>3. ASSUME NEW d, D!Sends(d) PROVE Goal
  <2>1. /\ UNCHANGED <<nodes, info, cursor, changed, offered, steady>>
        /\ dat'[0] = dat[0] /\ target'[0] = target[0]
        /\ DOMAIN dat' = {0, 1} /\ DOMAIN target' = {0, 1}
    BY <1>3 DEF D!Sends, BroadcastInv
  <2> QED BY <2>1 DEF BroadcastInv, Waits, D!Reachable
<1>4. ASSUME NEW d, D!SendEnds(d) PROVE Goal
  <2>1. /\ UNCHANGED <<cursor, offered>>
        /\ \E lost \in BOOLEAN : D!Becomes(nodes, D!AfterSend(d, lost))
        /\ dat'[0] = dat[0] /\ target'[0] = target[0]
        /\ DOMAIN dat' = {0, 1} /\ DOMAIN target' = {0, 1}
    BY <1>4 DEF D!SendEnds, BroadcastInv
  <2> QED BY <2>1, TableStep
<1>5. CASE D!Broadcast(0)
  <2> DEFINE ahead == {i \in 1..Len(nodes) : D!Reachable(nodes, info, nodes[i])}
  <2>1. /\ dat[0] # "sending" /\ UNCHANGED <<nodes, info>>
        /\ changed' = [changed EXCEPT ![0] = FALSE]
        /\ steady' = [steady EXCEPT ![0] = {d \in Device : D!Reachable(nodes, info, d)}]
    BY <1>5 DEF D!Broadcast
  <2>2. CASE ahead = {}
    <3>1. dat' = [dat EXCEPT ![0] = "idle"] /\ UNCHANGED <<target, cursor, offered>>
      BY <1>5, <2>2 DEF D!Broadcast
    <3> QED BY <2>1, <3>1 DEF BroadcastInv
  <2>3. CASE ahead # {}
    <3>1. D!SendToFirst(0, ahead)
      BY <1>5, <2>3 DEF D!Broadcast
    <3>2. /\ DOMAIN dat' = {0, 1} /\ DOMAIN target' = {0, 1} /\ DOMAIN cursor' = {0}
          /\ DOMAIN offered' = {0} /\ DOMAIN changed' = {0} /\ DOMAIN steady' = {0}
      BY <2>1, <3>1 DEF D!SendToFirst, BroadcastInv
    <3>3. /\ target'[0] \in offered'[0]
          /\ \A k \in ahead : \/ nodes[k] \in offered'[0]
                              \/ cursor'[0] # {} /\ \E j \in 1..k : nodes[j] \in cursor'[0]
      BY <3>1, SendsToFirst DEF BroadcastInv
    <3>4. /\ steady'[0] = {d \in Device : D!Reachable(nodes, info, d)}
      BY <2>1 DEF BroadcastInv
    <3>5. \A d \in steady'[0] : \E k \in ahead : nodes[k] = d
      BY <3>4 DEF D!Reachable, D!Contains
    <3>6. \A d \in steady'[0] : D!Reachable(nodes, info, d)'
      BY <2>1, <3>4 DEF D!Reachable
    <3> QED BY <2>1, <3>2, <3>3, <3>4, <3>5, <3>6 DEF BroadcastInv, Waits
  <2> QED BY <2>2, <2>3
<1>6. ASSUME NEW lost \in BOOLEAN, dat[0] = "sending", D!NextNode(0, lost) PROVE Goal
  <2> DEFINE table == D!AfterSend(0, lost)
             ahead == D!Ahead(cursor[0], table)
  <2>1. Waits(0) /\ ~changed[0] /\ D!SendToFirst(0, ahead) /\ D!Becomes(nodes, table)
    BY <1>6 DEF D!NextNode, BroadcastInv
  <2>2. /\ DOMAIN changed' = {0} /\ DOMAIN steady' = {0} /\ nodes' = nodes
        /\ ~changed'[0]
        /\ steady'[0] = {d \in steady[0] : D!Reachable(nodes, table, d)}
        /\ \A d \in Device : info'[d] = IF D!Contains(nodes, d) THEN table[d] ELSE D!Forgotten
    BY <1>6, <2>1 DEF D!Becomes
  <2>3. /\ DOMAIN dat' = {0, 1} /\ DOMAIN target' = {0, 1} /\ DOMAIN cursor' = {0}
        /\ DOMAIN offered' = {0} /\ dat'[0] = "sending"
    BY <2>1 DEF D!SendToFirst, BroadcastInv
  <2>4. /\ target'[0] \in offered'[0] /\ offered[0] \subseteq offered'[0]
        /\ \A k \in ahead : \/ nodes[k] \in offered'[0]
                            \/ cursor'[0] # {} /\ \E j \in 1..k : nodes[j] \in cursor'[0]
    <3>1. ahead \in SUBSET (1..Len(nodes))
      BY DEF D!Ahead
    <3> QED BY <2>1, <3>1, SendsToFirst DEF BroadcastInv
  <2>5. \A d \in steady'[0] \ offered'[0] : \E k \in ahead : nodes[k] = d
    BY <2>1, <2>2, <2>4 DEF Waits, D!Ahead
  <2>6. \A d \in steady'[0] : D!Reachable(nodes, info', d)
    BY <2>1, <2>2 DEF D!Reachable, Waits
  <2>7. ahead \subseteq 1..Len(nodes)
    BY DEF D!Ahead
  <2> HIDE DEF ahead, table
  <2>8. Waits(0)'
    BY <2>1, <2>2, <2>3, <2>4, <2>5, <2>6, <2>7 DEF Waits
  <2> QED BY <2>2, <2>3, <2>8 DEF BroadcastInv
<1>7. ASSUME NEW lost \in BOOLEAN, dat[0] = "sending",
             D!IterationFails(0, lost) \/ D!BroadcastEnds(0, lost)
      PROVE  Goal
  <2>1. PICK end \in {"idle", "raised"} : D!Over(0, end) /\ \E list, table : D!Becomes(list, table)
    BY <1>7 DEF D!IterationFails, D!BroadcastEnds
  <2>2. /\ DOMAIN dat' = {0, 1} /\ DOMAIN target' = {0, 1} /\ DOMAIN cursor' = {0}
        /\ DOMAIN offered' = {0} /\ dat'[0] = end
    BY <2>1 DEF D!Over, BroadcastInv
  <2>3. DOMAIN changed' = {0} /\ DOMAIN steady' = {0}
    BY <2>1 DEF D!Becomes
  <2>4. dat'[0] = "idle" => D!BroadcastEnds(0, lost)
    BY <1>7 DEF D!IterationFails, D!Over, BroadcastInv
  <2>5. D!BroadcastEnds(0, lost) => steady[0] \subseteq offered[0]
    BY <1>7, ReachesStep DEF D!BroadcastEnds
  <2> QED BY <2>2, <2>3, <2>4, <2>5 DEF BroadcastInv
<1>8. CASE D!AfterBroadcastSend(0)
  BY <1>8, <1>6, <1>7 DEF D!AfterBroadcastSend
<1>9. CASE UNCHANGED nodeVars
  BY <1>9 DEF nodeVars, BroadcastInv, Waits, D!Reachable
<1> QED BY <1>2, <1>3, <1>4, <1>5, <1>8, <1>9 DEF D!DeviceNext

-----------------------------------------------------------------------------
(* Scheduled jobs.                                                         *)

\* In memory and in the file a job is due after its last run unless it is excused, and a
\* task that waits to begin is for a job that is due now, unless it was replaced since.
JobInv ==
  /\ now \in Nat /\ last \in [Job -> Nat] /\ \A j \in Job : last[j] <= now
  /\ next \in [Job -> Nat \cup {Absent}] /\ file \in [Job -> Nat \cup {Absent}]
  /\ loaded # Absent => loaded \in [Job -> Nat \cup {Absent}]
  /\ started \subseteq Job
  /\ up = "down" => started = {}
  /\ \A j \in Job \ excused : next[j] # Absent => last[j] < next[j]
  /\ \A j \in Job \ excused : file[j] # Absent => last[j] < file[j]
  /\ \A j \in started \ (orphaned \cup excused) : next[j] # Absent /\ next[j] <= now

LEMMA JobStep ==
  ASSUME JobInv, [J!CronNext]_jobVars
  PROVE  JobInv'
<1> USE DEF JobInv
<1>1. CASE J!Tick
  BY <1>1 DEF J!Tick
<1>2. CASE J!Start
  BY <1>2 DEF J!Start
<1>3. CASE J!StartDue
  BY <1>3 DEF J!StartDue, J!Due, J!Jobs
<1>4. CASE J!CommandLoads \/ J!Stop
  BY <1>4 DEF J!CommandLoads, J!Stop
<1>5. CASE J!Exit
  BY <1>5 DEF J!Exit, J!Gone
<1>6. CASE J!Crash
  BY <1>6 DEF J!Crash, J!Gone
<1>7. ASSUME NEW j \in Job, J!Begin(j) PROVE JobInv'
  <2>1. /\ now' = now /\ loaded' = loaded /\ up' = up /\ up # "down"
        /\ started' = started \ {j} /\ orphaned' = orphaned \ {j}
    BY <1>7 DEF J!Begin, J!Runs
  <2>2. /\ last' = [last EXCEPT ![j] = IF j \in orphaned THEN @ ELSE now]
        /\ next' = IF j \in orphaned THEN next ELSE [next EXCEPT ![j] = now + 1]
    BY <1>7 DEF J!Begin, J!Runs
  <2>3. \/ file' = next' /\ excused' = excused \ ({j} \ orphaned)
        \/ file' = file /\ excused' = excused \cup {j}
    BY <1>7 DEF J!Begin, J!Save
  <2>4. \A k \in Job \ excused' : /\ next'[k] # Absent => last'[k] < next'[k]
                                /\ file'[k] # Absent => last'[k] < file'[k]
    <3>1. CASE j \in orphaned
      BY <2>2, <2>3, <3>1
    <3>2. CASE j \notin orphaned
      <4>1. last'[j] = now /\ next'[j] = now + 1
        BY <2>2, <3>2
      <4>2. \A k \in Job \ {j} : last'[k] = last[k] /\ next'[k] = next[k]
        BY <2>2, <3>2
      <4> QED BY <2>3, <3>2, <4>1, <4>2
    <3> QED BY <3>1, <3>2
  <2>5. /\ last' \in [Job -> Nat] /\ next' \in [Job -> Nat \cup {Absent}]
        /\ \A k \in Job : last'[k] <= now
    BY <2>2
  <2> QED BY <2>1, <2>2, <2>3, <2>4, <2>5
<1>8. ASSUME NEW j \in Job, J!Change(j) PROVE JobInv'
  <2>1. /\ now' = now /\ loaded' = loaded /\ up' = up /\ last' = last /\ started' = started
        /\ orphaned' = orphaned \cup ({j} \intersect started) /\ up # "down"
    BY <1>8 DEF J!Change
  <2>2. \E n \in {now + 1, Absent} : next' = [next EXCEPT ![j] = n]
    BY <1>8 DEF J!Change, J!Added, J!Removed
  <2>3. \/ file' = next' /\ excused' = excused \ ({j} \ orphaned)
        \/ file' = file /\ excused' = excused \cup {j}
    BY <1>8 DEF J!Change, J!Save
  <2>4. next' \in [Job -> Nat \cup {Absent}]
    BY <2>2
  <2>5. /\ next'[j] # Absent => last[j] < next'[j]
        /\ \A k \in Job \ {j} : next'[k] = next[k]
    BY <2>2
  <2>6. \A k \in Job \ excused' : next'[k] # Absent => last'[k] < next'[k]
    BY <2>1, <2>3, <2>5
  <2>12. \A k \in Job \ excused' : file'[k] # Absent => last'[k] < file'[k]
    BY <2>1, <2>3, <2>5
  <2>7. \A k \in started' \ (orphaned' \cup excused') : next'[k] # Absent /\ next'[k] <= now'
    BY <2>1, <2>3, <2>5
  <2>8. file' \in [Job -> Nat \cup {Absent}]
    BY <2>3, <2>4
  <2>9. up' = "down" => started' = {}
    BY <2>1
  <2>10. started' \subseteq Job /\ (loaded' # Absent => loaded' \in [Job -> Nat \cup {Absent}])
    BY <2>1
  <2>11. now' \in Nat /\ last' \in [Job -> Nat] /\ \A k \in Job : last'[k] <= now'
    BY <2>1
  <2> QED BY Zenon, <2>4, <2>6, <2>7, <2>8, <2>9, <2>10, <2>11, <2>12
<1>9. ASSUME NEW j \in Job, J!Trigger(j) PROVE JobInv'
  <2>1. /\ now' = now /\ loaded' = loaded /\ up' = up /\ last' = last /\ started' = started
        /\ orphaned' = orphaned /\ file' = file /\ excused' = excused \cup {j}
        /\ next[j] # Absent /\ next' = [next EXCEPT ![j] = now]
    BY <1>9 DEF J!Trigger
  <2>2. next' \in [Job -> Nat \cup {Absent}] /\ next'[j] = now
    BY <2>1
  <2>3. \A k \in Job \ {j} : next'[k] = next[k]
    BY <2>1
  <2>4. \A k \in Job \ excused' : next'[k] # Absent => last'[k] < next'[k]
    BY <2>1, <2>3
  <2>5. \A k \in Job \ excused' : file'[k] # Absent => last'[k] < file'[k]
    BY <2>1
  <2>6. \A k \in started' \ (orphaned' \cup excused') : next'[k] # Absent /\ next'[k] <= now'
    BY <2>1, <2>2, <2>3
  <2>7. /\ now' \in Nat /\ last' \in [Job -> Nat] /\ \A k \in Job : last'[k] <= now'
        /\ file' \in [Job -> Nat \cup {Absent}]
        /\ loaded' # Absent => loaded' \in [Job -> Nat \cup {Absent}]
        /\ started' \subseteq Job /\ (up' = "down" => started' = {})
    BY <2>1
  <2> QED BY Zenon, <2>2, <2>4, <2>5, <2>6, <2>7
<1>10. ASSUME NEW j \in Job, J!CommandSaves(j) PROVE JobInv'
  <2>1. /\ now' = now /\ up' = up /\ next' = next /\ last' = last /\ started' = started
        /\ orphaned' = orphaned /\ loaded' = Absent
        /\ excused' = excused \cup {k \in Job : /\ file'[k] # Absent /\ file'[k] # file[k]
                                             /\ file'[k] <= last[k]}
    BY <1>10 DEF J!CommandSaves, J!Jobs
  <2>2. file' \in [Job -> Nat \cup {Absent}]
    BY <1>10 DEF J!CommandSaves, J!Added, J!Removed
  <2>3. \A k \in Job \ excused' : file'[k] # Absent => last'[k] < file'[k]
    BY <2>1, <2>2
  <2> QED BY <2>1, <2>2, <2>3
<1>11. ASSUME NEW s \in Slots, J!Continue(s) \/ J!Ends(s) PROVE JobInv'
  BY <1>11 DEF J!Continue, J!Ends
<1>12. CASE UNCHANGED jobVars
  BY <1>12 DEF jobVars
<1> QED BY <1>1, <1>2, <1>3, <1>4, <1>5, <1>6, <1>7, <1>8, <1>9, <1>10, <1>11, <1>12 DEF J!CronNext

\* A task that leaves the started ones begins, unless the process is gone.
LEMMA BegunOnce ==
  ASSUME JobInv, [J!CronNext]_jobVars, NEW j \in started \ (started' \cup orphaned), up' # "down"
  PROVE  last[j] < now \/ j \in excused
<1>1. j \in Job /\ j \in started \ orphaned
  BY DEF JobInv
<1>2. last[j] \in Nat /\ now \in Nat /\ next[j] \in Nat \cup {Absent}
  BY <1>1 DEF JobInv
<1>3. j \notin excused => next[j] # Absent /\ next[j] <= now /\ last[j] < next[j]
  BY <1>1 DEF JobInv
<1> QED BY <1>2, <1>3

-------------------------------------------------------------------------------
\* The agents of the gateway are accounted for: a cache, as one value, agrees with itself
\* whatever is dropped, added or asked for.

IsCache(c, n) ==
  /\ c \in [order : SUBSET (A!Session \X A!Session),
            agent : [A!Session -> (1..n) \union {NoAgent}],
            idle : [A!Session -> Nat \union {NoAgent}],
            gone : SUBSET (1..n)]
  /\ \A s \in A!Session : s \in A!Keys(c.order) <=> c.idle[s] # NoAgent
  /\ \A s \in A!Session : s \in A!Keys(c.order) <=> c.agent[s] # NoAgent
  /\ \A s, t \in A!Session : c.agent[s] = c.agent[t] /\ c.agent[s] # NoAgent => s = t

\* An agent is cached or was dropped.
Accounts(c, n) == \A a \in 1..n : a \in c.gone <=> \A s \in A!Session : c.agent[s] # a

LEMMA SameCount == \A S : A!Cardinality(S) = Cardinality(S)
BY DEF A!Cardinality, Cardinality

LEMMA SessionsFinite == IsFiniteSet(A!Session)
<1>1. TwoSessions \in Surjection(Message, A!Session)
  BY DEF Surjection, A!Session, TwoSessions
<1> QED BY <1>1, AgentsAssumption, FS_Surjection

LEMMA FewerKeys ==
  ASSUME NEW k, NEW l, k \subseteq l, l \subseteq A!Session
  PROVE  /\ Cardinality(k) \in Nat /\ Cardinality(l) \in Nat
         /\ Cardinality(k) <= Cardinality(l)
BY SessionsFinite, FS_Subset, FS_CardinalityType

LEMMA KeysLeft ==
  \A order, keys : A!Keys(A!Without(order, keys)) = A!Keys(order) \ keys
BY DEF A!Keys, A!Without

LEMMA KeysAtEnd ==
  \A order : \A s \in A!Session : A!Keys(A!AtEnd(order, s)) = A!Keys(order) \union {s}
<1> TAKE order
<1> TAKE s \in A!Session
<1> DEFINE rest == A!Without(order, {s})
<1>1. A!Keys(rest) = A!Keys(order) \ {s}
  BY KeysLeft
<1> HIDE DEF rest
<1>2. A!Keys(rest \union ((A!Keys(rest) \union {s}) \X {s})) = A!Keys(rest) \union {s}
  BY DEF A!Keys
<1>3. A!AtEnd(order, s) = rest \union ((A!Keys(rest) \union {s}) \X {s})
  BY DEF A!AtEnd, rest
<1> QED BY <1>1, <1>2, <1>3

LEMMA EvictedCache ==
  ASSUME NEW n \in Nat, NEW c, IsCache(c, n), NEW keys \in SUBSET A!Keys(c.order)
  PROVE  /\ IsCache(A!Evict(c, keys), n)
         /\ Accounts(c, n) => Accounts(A!Evict(c, keys), n)
         /\ A!Keys(A!Evict(c, keys).order) = A!Keys(c.order) \ keys
<1> DEFINE d == A!Evict(c, keys)
<1>0. NoAgent \notin Nat /\ keys \subseteq A!Session /\ A!Keys(c.order) \subseteq A!Session
  BY AgentsAssumption DEF A!Keys
<1>1. /\ d.order = A!Without(c.order, keys) /\ A!Keys(d.order) = A!Keys(c.order) \ keys
      /\ d.agent = [s \in A!Session |-> IF s \in keys THEN NoAgent ELSE c.agent[s]]
      /\ d.idle = [s \in A!Session |-> IF s \in keys THEN NoAgent ELSE c.idle[s]]
      /\ d.gone = c.gone \union {c.agent[s] : s \in keys}
      /\ d = [order |-> d.order, agent |-> d.agent, idle |-> d.idle, gone |-> d.gone]
  BY KeysLeft DEF A!Evict
<1> HIDE DEF d
<1>2. /\ d.order \in SUBSET (A!Session \X A!Session)
      /\ d.agent \in [A!Session -> (1..n) \union {NoAgent}]
      /\ d.idle \in [A!Session -> Nat \union {NoAgent}]
      /\ d.gone \in SUBSET (1..n)
  <2>1. A!Without(c.order, keys) \subseteq c.order
    BY DEF A!Without
  <2>2. \A s \in keys : c.agent[s] \in 1..n
    BY <1>0 DEF IsCache
  <2> QED BY <1>0, <1>1, <2>1, <2>2 DEF IsCache
<1>3. d \in [order : SUBSET (A!Session \X A!Session),
             agent : [A!Session -> (1..n) \union {NoAgent}],
             idle : [A!Session -> Nat \union {NoAgent}],
             gone : SUBSET (1..n)]
  BY <1>1, <1>2
<1>4. IsCache(d, n)
  BY <1>0, <1>1, <1>3 DEF IsCache
<1>5. ASSUME Accounts(c, n) PROVE Accounts(d, n)
  <2> SUFFICES ASSUME NEW a \in 1..n
               PROVE  a \in d.gone <=> \A s \in A!Session : d.agent[s] # a
    BY DEF Accounts
  <2>0. a # NoAgent
    BY <1>0
  <2>1. a \in c.gone <=> \A s \in A!Session : c.agent[s] # a
    BY <1>5 DEF Accounts
  <2>2. a \in d.gone <=> a \in c.gone \/ \E s \in keys : c.agent[s] = a
    BY <1>1
  <2>3. \A s \in A!Session : d.agent[s] = a <=> s \notin keys /\ c.agent[s] = a
    BY <1>1, <2>0
  <2>4. \A s, t \in A!Session : c.agent[s] = a /\ c.agent[t] = a => s = t
    BY <2>0 DEF IsCache
  <2> QED BY <1>0, <2>1, <2>2, <2>3, <2>4
<1> QED BY <1>1, <1>4, <1>5 DEF d

LEMMA IdleEvicted ==
  ASSUME NEW n \in Nat, NEW c, IsCache(c, n)
  PROVE  /\ IsCache(A!EvictIdle(c), n)
         /\ Accounts(c, n) => Accounts(A!EvictIdle(c), n)
         /\ A!Keys(A!EvictIdle(c).order) \subseteq A!Keys(c.order)
<1> DEFINE keys == {s \in A!Session : c.idle[s] \in Nat /\ c.idle[s] > IdleTTL}
<1>1. keys \in SUBSET A!Keys(c.order)
  BY AgentsAssumption DEF IsCache
<1>2. A!EvictIdle(c) = A!Evict(c, keys)
  BY DEF A!EvictIdle
<1> HIDE DEF keys
<1> QED BY <1>1, <1>2, EvictedCache

\* Room is made for one agent more.
LEMMA RoomMade ==
  ASSUME NEW n \in Nat, NEW c, IsCache(c, n), NEW d \in A!EvictFull(c)
  PROVE  /\ IsCache(d, n)
         /\ Accounts(c, n) => Accounts(d, n)
         /\ Cardinality(A!Keys(d.order)) < CacheSize
<1>0. A!Keys(c.order) \subseteq A!Session /\ CacheSize \in Nat
  BY AgentsAssumption DEF A!Keys
<1>a. d \in IF Cardinality(A!Keys(c.order)) < CacheSize THEN {c}
            ELSE {A!Evict(c, keys) : keys \in A!Front(c)}
  BY SameCount DEF A!EvictFull
<1>1. CASE Cardinality(A!Keys(c.order)) < CacheSize
  BY <1>a, <1>1
<1>2. CASE ~(Cardinality(A!Keys(c.order)) < CacheSize)
  <2>1. PICK keys \in A!Front(c) : d = A!Evict(c, keys)
    BY <1>a, <1>2
  <2>2. /\ keys \in SUBSET A!Keys(c.order)
        /\ Cardinality(A!Keys(c.order) \ keys) = CacheSize - 1
    BY SameCount DEF A!Front
  <2>3. A!Keys(d.order) = A!Keys(c.order) \ keys
    BY <2>1, <2>2, EvictedCache
  <2> QED BY <1>0, <2>1, <2>2, <2>3, EvictedCache
<1> QED BY <1>1, <1>2

LEMMA FullEvicted ==
  ASSUME NEW n \in Nat, NEW c, IsCache(c, n), NEW d \in A!EvictFull(c)
  PROVE  A!Keys(d.order) \subseteq A!Keys(c.order)
<1>a. d \in IF Cardinality(A!Keys(c.order)) < CacheSize THEN {c}
            ELSE {A!Evict(c, keys) : keys \in A!Front(c)}
  BY SameCount DEF A!EvictFull
<1>1. CASE Cardinality(A!Keys(c.order)) < CacheSize
  BY <1>a, <1>1
<1>2. CASE ~(Cardinality(A!Keys(c.order)) < CacheSize)
  <2>1. PICK keys \in A!Front(c) : d = A!Evict(c, keys)
    BY <1>a, <1>2
  <2>2. keys \in SUBSET A!Keys(c.order)
    BY DEF A!Front
  <2> QED BY <2>1, <2>2, EvictedCache
<1> QED BY <1>1, <1>2

LEMMA InsertedCache ==
  ASSUME NEW n \in Nat, NEW c, IsCache(c, n), NEW s \in A!Session, c.agent[s] = NoAgent
  PROVE  /\ IsCache(A!Insert(c, s, n + 1), n + 1)
         /\ Accounts(c, n) => Accounts(A!Insert(c, s, n + 1), n + 1)
         /\ A!Insert(c, s, n + 1).agent[s] = n + 1
         /\ A!Keys(A!Insert(c, s, n + 1).order) = A!Keys(c.order) \union {s}
<1> DEFINE d == A!Insert(c, s, n + 1)
<1>0. NoAgent \notin Nat /\ n + 1 \in 1..(n + 1) /\ 1..n \subseteq 1..(n + 1) /\ n + 1 \notin 1..n
      /\ 1..(n + 1) = (1..n) \union {n + 1}
  BY AgentsAssumption
<1>1. c = [order |-> c.order, agent |-> c.agent, idle |-> c.idle, gone |-> c.gone]
  BY DEF IsCache
<1>2. /\ d.order = A!AtEnd(c.order, s) /\ A!Keys(d.order) = A!Keys(c.order) \union {s}
      /\ d.agent = [c.agent EXCEPT ![s] = n + 1]
      /\ d.idle = [c.idle EXCEPT ![s] = 0]
      /\ d.gone = c.gone
      /\ d = [order |-> d.order, agent |-> d.agent, idle |-> d.idle, gone |-> d.gone]
  BY <1>1, KeysAtEnd DEF A!Insert
<1> HIDE DEF d
<1>3. /\ d.order \in SUBSET (A!Session \X A!Session)
      /\ d.agent \in [A!Session -> (1..(n + 1)) \union {NoAgent}]
      /\ d.idle \in [A!Session -> Nat \union {NoAgent}]
      /\ d.gone \in SUBSET (1..(n + 1))
  <2>1. A!AtEnd(c.order, s) \subseteq A!Session \X A!Session
    BY DEF A!AtEnd, A!Without, A!Keys, IsCache
  <2> QED BY <1>0, <1>2, <2>1 DEF IsCache
<1>4. d \in [order : SUBSET (A!Session \X A!Session),
             agent : [A!Session -> (1..(n + 1)) \union {NoAgent}],
             idle : [A!Session -> Nat \union {NoAgent}],
             gone : SUBSET (1..(n + 1))]
  BY <1>2, <1>3
<1>5. /\ \A t \in A!Session : c.agent[t] # n + 1
      /\ \A t \in A!Session : d.agent[t] = IF t = s THEN n + 1 ELSE c.agent[t]
      /\ \A t \in A!Session : d.idle[t] = IF t = s THEN 0 ELSE c.idle[t]
  BY <1>0, <1>2 DEF IsCache
<1>6. IsCache(d, n + 1)
  BY <1>0, <1>2, <1>4, <1>5 DEF IsCache
<1>7. ASSUME Accounts(c, n) PROVE Accounts(d, n + 1)
  <2> SUFFICES ASSUME NEW a \in 1..(n + 1)
               PROVE  a \in d.gone <=> \A t \in A!Session : d.agent[t] # a
    BY DEF Accounts
  <2>1. CASE a \in 1..n
    <3>1. a \in c.gone <=> \A t \in A!Session : c.agent[t] # a
      BY <1>7, <2>1 DEF Accounts
    <3>2. a # n + 1 /\ a # NoAgent
      BY <1>0, <2>1
    <3> QED BY <1>2, <1>5, <3>1, <3>2
  <2>2. CASE a = n + 1
    BY <1>0, <1>2, <1>5, <2>2 DEF IsCache
  <2> QED BY <1>0, <2>1, <2>2
<1> QED BY <1>2, <1>5, <1>6, <1>7 DEF d

LEMMA TouchedCache ==
  ASSUME NEW n \in Nat, NEW c, IsCache(c, n), NEW s \in A!Session, c.agent[s] # NoAgent
  PROVE  /\ IsCache(A!Touch(c, s), n)
         /\ Accounts(c, n) => Accounts(A!Touch(c, s), n)
         /\ A!Touch(c, s).agent = c.agent
         /\ A!Keys(A!Touch(c, s).order) = A!Keys(c.order)
<1> DEFINE d == A!Touch(c, s)
<1>0. NoAgent \notin Nat /\ s \in A!Keys(c.order)
  BY AgentsAssumption DEF IsCache
<1>1. c = [order |-> c.order, agent |-> c.agent, idle |-> c.idle, gone |-> c.gone]
  BY DEF IsCache
<1>2. /\ d.order = IF routed THEN A!AtEnd(c.order, s) ELSE c.order
      /\ d.agent = c.agent
      /\ d.idle = [c.idle EXCEPT ![s] = 0]
      /\ d.gone = c.gone
      /\ d = [order |-> d.order, agent |-> d.agent, idle |-> d.idle, gone |-> d.gone]
  BY <1>1 DEF A!Touch
<1> HIDE DEF d
<1>3. A!Keys(d.order) = A!Keys(c.order) /\ d.order \in SUBSET (A!Session \X A!Session)
  <2>1. A!AtEnd(c.order, s) \subseteq A!Session \X A!Session
    BY DEF A!AtEnd, A!Without, A!Keys, IsCache
  <2>2. A!Keys(A!AtEnd(c.order, s)) = A!Keys(c.order)
    BY <1>0, KeysAtEnd
  <2> QED BY <1>2, <2>1, <2>2 DEF IsCache
<1>4. /\ d.idle \in [A!Session -> Nat \union {NoAgent}]
      /\ \A t \in A!Session : d.idle[t] = IF t = s THEN 0 ELSE c.idle[t]
  BY <1>0, <1>2 DEF IsCache
<1>5. d \in [order : SUBSET (A!Session \X A!Session),
             agent : [A!Session -> (1..n) \union {NoAgent}],
             idle : [A!Session -> Nat \union {NoAgent}],
             gone : SUBSET (1..n)]
  BY <1>2, <1>3, <1>4 DEF IsCache
<1>6. IsCache(d, n)
  BY <1>0, <1>2, <1>3, <1>4, <1>5 DEF IsCache
<1>7. Accounts(c, n) => Accounts(d, n)
  BY <1>2 DEF Accounts
<1> QED BY <1>2, <1>3, <1>6, <1>7 DEF d

\* What a lookup leaves: the agent of the session, an old one or the next.
LEMMA LookedUpCache ==
  ASSUME NEW n \in Nat, IsCache(A!Contents, n), NEW s \in A!Session,
         NEW c \in A!LookedUp(s, n + 1)
  PROVE  /\ Cardinality(A!Keys(c.order)) <= CacheSize
         /\ \/ /\ c.agent[s] \in 1..n /\ IsCache(c, n)
               /\ Accounts(A!Contents, n) => Accounts(c, n)
            \/ /\ c.agent[s] = n + 1 /\ IsCache(c, n + 1)
               /\ Accounts(A!Contents, n) => Accounts(c, n + 1)
<1>1. PICK found \in A!EvictFull(A!EvictIdle(A!Contents)) :
        c \in IF found.agent[s] # NoAgent THEN {A!Touch(found, s)}
              ELSE {A!Insert(d, s, n + 1) : d \in IF routed THEN A!EvictFull(A!EvictIdle(found)) ELSE {found}}
  BY DEF A!LookedUp
<1>2. /\ IsCache(found, n) /\ Cardinality(A!Keys(found.order)) < CacheSize
      /\ Accounts(A!Contents, n) => Accounts(found, n)
  BY IdleEvicted, RoomMade
<1>3. CacheSize \in Nat /\ \A order : A!Keys(order) \subseteq A!Session
  BY AgentsAssumption DEF A!Keys
<1>4. CASE found.agent[s] # NoAgent
  <2>1. c = A!Touch(found, s)
    BY <1>1, <1>4
  <2>2. /\ IsCache(c, n) /\ (Accounts(found, n) => Accounts(c, n))
        /\ c.agent = found.agent /\ A!Keys(c.order) = A!Keys(found.order)
    BY <1>2, <1>4, <2>1, TouchedCache
  <2>3. found.agent[s] \in 1..n
    BY <1>2, <1>4 DEF IsCache
  <2>4. Cardinality(A!Keys(found.order)) \in Nat
    BY <1>3, FewerKeys
  <2> QED BY <1>2, <1>3, <2>2, <2>3, <2>4
<1>5. CASE found.agent[s] = NoAgent
  <2>1. PICK d \in IF routed THEN A!EvictFull(A!EvictIdle(found)) ELSE {found} : c = A!Insert(d, s, n + 1)
    BY <1>1, <1>5
  <2>2. /\ IsCache(d, n) /\ Cardinality(A!Keys(d.order)) < CacheSize
        /\ Accounts(A!Contents, n) => Accounts(d, n)
    BY <1>2, <2>1, IdleEvicted, RoomMade
  <2>3. d.agent[s] = NoAgent
    <3>1. ASSUME routed PROVE s \notin A!Keys(d.order)
      <4>1. s \notin A!Keys(found.order)
        BY <1>2, <1>5 DEF IsCache
      <4>2. A!Keys(d.order) \subseteq A!Keys(found.order)
        BY <1>2, <2>1, <3>1, IdleEvicted, FullEvicted
      <4> QED BY <4>1, <4>2
    <3> QED BY <1>5, <2>1, <2>2, <3>1 DEF IsCache
  <2>4. /\ IsCache(c, n + 1) /\ (Accounts(d, n) => Accounts(c, n + 1))
        /\ c.agent[s] = n + 1 /\ A!Keys(c.order) = A!Keys(d.order) \union {s}
    BY <2>1, <2>2, <2>3, InsertedCache
  <2>5. /\ Cardinality(A!Keys(d.order) \union {s}) <= Cardinality(A!Keys(d.order)) + 1
        /\ Cardinality(A!Keys(d.order)) \in Nat /\ Cardinality(A!Keys(d.order) \union {s}) \in Nat
    <3>1. IsFiniteSet(A!Keys(d.order))
      BY <1>3, SessionsFinite, FS_Subset
    <3>2. /\ IsFiniteSet(A!Keys(d.order) \union {s}) /\ Cardinality(A!Keys(d.order)) \in Nat
          /\ Cardinality(A!Keys(d.order) \union {s}) =
               IF s \in A!Keys(d.order) THEN Cardinality(A!Keys(d.order))
               ELSE Cardinality(A!Keys(d.order)) + 1
      BY <3>1, FS_AddElement, FS_CardinalityType
    <3> QED BY <3>2
  <2> QED BY <1>2, <1>3, <2>2, <2>4, <2>5
<1> QED BY <1>4, <1>5
\* A message whose agent runs has it for itself.
Running(m) == mpc[m] \in {"opening", "running", "closing"}

AgentStates == {"IDLE", "RUNNING", "FINISHED", "ERROR"}
Places == {"sent", "opening", "running", "closing", "replying", "answered"}

AgentInv ==
  /\ IsCache(A!Contents, Len(state)) /\ Cardinality(A!Keys(cache)) <= CacheSize
  /\ stopping = "no" => Accounts(A!Contents, Len(state))
  /\ state \in Seq(AgentStates)
  /\ mpc \in [Message -> Places] /\ DOMAIN serving = Message
  /\ \A m \in Message : Running(m) =>
       serving[m] \in 1..Len(state) /\ state[serving[m]] # "IDLE"
  /\ \A m, l \in Message : Running(m) /\ Running(l) /\ serving[m] = serving[l] => m = l

\* The cache is the same as long as nothing of it changes.
LEMMA SameCache ==
  ASSUME UNCHANGED <<cache, cached, idle, cleaned>>
  PROVE  A!Contents' = A!Contents
BY DEF A!Contents

LEMMA WithState ==
  ASSUME NEW q \in Seq(AgentStates), NEW i \in 1..Len(q), NEW x \in AgentStates
  PROVE  /\ [q EXCEPT ![i] = x] \in Seq(AgentStates)
         /\ Len([q EXCEPT ![i] = x]) = Len(q)
         /\ \A b \in 1..Len(q) : [q EXCEPT ![i] = x][b] = IF b = i THEN x ELSE q[b]
OBVIOUS

LEMMA HandleStep ==
  ASSUME AgentInv, NEW m \in Message, A!Handle(m)
  PROVE  AgentInv'
<1> DEFINE n == Len(state)
           s == TwoSessions[m]
<1>1. n \in Nat /\ s \in A!Session /\ IsCache(A!Contents, n)
  BY DEF AgentInv, A!Session
<1>2. PICK c \in A!LookedUp(s, n + 1) :
        LET a == c.agent[s]
            known == IF a = n + 1 THEN Append(state, "IDLE") ELSE state
        IN
        /\ cache' = c.order /\ cached' = c.agent
        /\ idle' = c.idle /\ cleaned' = c.gone
        /\ serving' = [serving EXCEPT ![m] = a]
        /\ IF known[a] = "IDLE"
             THEN /\ state' = [known EXCEPT ![a] = "RUNNING"]
                  /\ mpc' = [mpc EXCEPT ![m] = "opening"]
                  /\ UNCHANGED reply
             ELSE /\ state' = known
                  /\ mpc' = [mpc EXCEPT ![m] = "replying"]
                  /\ reply' = [reply EXCEPT ![m] =
                                 IF known[a] = "RUNNING" THEN "busy" ELSE "not idle"]
  BY DEF A!Handle
<1> DEFINE a == c.agent[s]
           known == IF a = n + 1 THEN Append(state, "IDLE") ELSE state
           k == IF a = n + 1 THEN n + 1 ELSE n
<1>3. mpc[m] = "sent" /\ stopping' = stopping
  BY DEF A!Handle
<1>4. /\ Cardinality(A!Keys(c.order)) <= CacheSize
      /\ a \in 1..k /\ k \in {n, n + 1} /\ IsCache(c, k)
      /\ Accounts(A!Contents, n) => Accounts(c, k)
  <2>1. /\ Cardinality(A!Keys(c.order)) <= CacheSize
        /\ \/ /\ c.agent[s] \in 1..n /\ IsCache(c, n)
              /\ Accounts(A!Contents, n) => Accounts(c, n)
           \/ /\ c.agent[s] = n + 1 /\ IsCache(c, n + 1)
              /\ Accounts(A!Contents, n) => Accounts(c, n + 1)
    BY <1>1, LookedUpCache
  <2>2. c.agent[s] \in 1..n => c.agent[s] # n + 1
    BY <1>1
  <2>3. n + 1 \in 1..(n + 1)
    BY <1>1
  <2> HIDE DEF n, s
  <2> QED BY <2>1, <2>2, <2>3
<1>5. /\ known \in Seq(AgentStates) /\ Len(known) = k /\ DOMAIN known = 1..k
      /\ \A b \in 1..n : known[b] = state[b]
      /\ a = n + 1 => known[a] = "IDLE"
  <2>1. state \in Seq(AgentStates) /\ n \in Nat /\ DOMAIN state = 1..n
    BY DEF AgentInv
  <2>2. /\ Append(state, "IDLE") \in Seq(AgentStates) /\ Len(Append(state, "IDLE")) = n + 1
        /\ DOMAIN Append(state, "IDLE") = 1..(n + 1)
        /\ \A b \in 1..n : Append(state, "IDLE")[b] = state[b]
        /\ Append(state, "IDLE")[n + 1] = "IDLE"
    BY <2>1, AppendProperties DEF AgentStates
  <2> HIDE DEF n
  <2> QED BY <2>1, <2>2
<1>6. c = [order |-> cache', agent |-> cached', idle |-> idle', gone |-> cleaned']
  BY <1>2, <1>4 DEF IsCache
<1>7. A!Contents' = c
  BY <1>6 DEF A!Contents
<1>8. /\ state' \in Seq(AgentStates) /\ Len(state') = k
      /\ \A b \in 1..k : state'[b] = IF known[a] = "IDLE" /\ b = a THEN "RUNNING" ELSE known[b]
  <2>1. CASE known[a] = "IDLE"
    <3>1. state' = [known EXCEPT ![a] = "RUNNING"]
      BY <1>2, <2>1
    <3> HIDE DEF known, a, k
    <3>2. /\ [known EXCEPT ![a] = "RUNNING"] \in Seq(AgentStates)
          /\ Len([known EXCEPT ![a] = "RUNNING"]) = Len(known)
      BY <1>4, <1>5, WithState DEF AgentStates
    <3> QED BY <1>4, <1>5, <2>1, <3>1, <3>2
  <2>2. CASE known[a] # "IDLE"
    <3>1. state' = known
      BY <1>2, <2>2
    <3> QED BY <1>5, <2>2, <3>1
  <2> QED BY <2>1, <2>2
<1>9. /\ serving' = [serving EXCEPT ![m] = a]
      /\ mpc' = [mpc EXCEPT ![m] = IF known[a] = "IDLE" THEN "opening" ELSE "replying"]
  BY <1>2
<1>10. \A b \in 1..n : b \in 1..k
  BY <1>1, <1>4
<1> HIDE DEF a, known, k, n, s
<1>11. ASSUME NEW l \in Message, l # m
       PROVE  /\ (Running(l))' <=> Running(l)
              /\ serving'[l] = serving[l]
  BY <1>9, <1>11 DEF Running, AgentInv
<1>12. (Running(m))' => known[a] = "IDLE" /\ serving'[m] = a /\ state'[a] = "RUNNING"
  BY <1>4, <1>8, <1>9 DEF Running, AgentInv
<1>13. ASSUME NEW l \in Message, l # m, (Running(l))'
       PROVE  /\ serving'[l] \in 1..k /\ state'[serving'[l]] # "IDLE"
              /\ known[serving'[l]] # "IDLE"
  <2>1. serving'[l] = serving[l] /\ serving[l] \in 1..n /\ state[serving[l]] # "IDLE"
    BY <1>11, <1>13 DEF AgentInv, n
  <2> QED BY <1>5, <1>8, <1>10, <2>1
<1>14. \A l \in Message : (Running(l))' =>
         serving'[l] \in 1..Len(state') /\ state'[serving'[l]] # "IDLE"
  BY <1>4, <1>8, <1>12, <1>13
<1>15. \A l, i \in Message : (Running(l))' /\ (Running(i))' /\ serving'[l] = serving'[i] => l = i
  <2> SUFFICES ASSUME NEW l \in Message, NEW i \in Message, (Running(l))', (Running(i))',
                      serving'[l] = serving'[i], l # i
               PROVE  FALSE
    OBVIOUS
  <2>1. CASE l = m
    BY <1>12, <1>13, <2>1
  <2>2. CASE i = m
    BY <1>12, <1>13, <2>2
  <2>3. CASE l # m /\ i # m
    BY <1>11, <2>3 DEF AgentInv
  <2> QED BY <2>1, <2>2, <2>3
<1>16. mpc' \in [Message -> Places] /\ DOMAIN serving' = Message
  BY <1>9 DEF AgentInv, Places
<1>17. IsCache(A!Contents', Len(state')) /\ (stopping' = "no" => Accounts(A!Contents', Len(state')))
  BY <1>3, <1>4, <1>7, <1>8 DEF AgentInv, n
<1>18. Cardinality(A!Keys(cache')) <= CacheSize
  BY <1>2, <1>4
<1> QED BY Zenon, <1>8, <1>14, <1>15, <1>16, <1>17, <1>18 DEF AgentInv, A!Keys, IsCache, Accounts

LEMMA AgentStep ==
  ASSUME AgentInv, [A!Next]_agentVars
  PROVE  AgentInv'
<1> DEFINE n == Len(state)
<1>0. /\ state \in Seq(AgentStates) /\ n \in Nat /\ DOMAIN state = 1..n
      /\ \A m \in Message : Running(m) => serving[m] \in 1..n /\ state[serving[m]] # "IDLE"
  BY DEF AgentInv
<1>1. ASSUME NEW m \in Message, A!Handle(m) PROVE AgentInv'
  BY <1>1, HandleStep
<1>2. ASSUME NEW m \in Message, A!Open(m) \/ A!Closed(m) \/ A!Reply(m) PROVE AgentInv'
  <2>1. /\ A!Contents' = A!Contents /\ cache' = cache /\ state' = state /\ serving' = serving
        /\ stopping' = stopping
    BY <1>2, SameCache DEF A!Open, A!Closed, A!Reply
  <2>2. mpc' \in [Message -> Places] /\ \A l \in Message : (Running(l))' => Running(l)
    BY <1>2 DEF A!Open, A!Closed, A!Reply, Running, AgentInv, Places
  <2> QED BY <2>1, <2>2 DEF AgentInv, A!Keys, IsCache, Accounts
<1>3. ASSUME NEW m \in Message, A!RunEnds(m) PROVE AgentInv'
  <2>1. /\ A!Contents' = A!Contents /\ cache' = cache /\ serving' = serving
        /\ stopping' = stopping /\ mpc[m] = "running" /\ mpc' = [mpc EXCEPT ![m] = "closing"]
    BY <1>3, SameCache DEF A!RunEnds
  <2>2. PICK end \in {"FINISHED", "ERROR"} : state' = [state EXCEPT ![serving[m]] = end]
    BY <1>3 DEF A!RunEnds
  <2>3. serving[m] \in 1..n
    BY <1>0, <2>1 DEF Running
  <2>4. state' \in Seq(AgentStates) /\ Len(state') = n
        /\ \A b \in 1..n : state'[b] = IF b = serving[m] THEN end ELSE state[b]
    BY <1>0, <2>2, <2>3, WithState DEF AgentStates
  <2>5. mpc' \in [Message -> Places] /\ \A l \in Message : (Running(l))' <=> Running(l)
    BY <2>1 DEF Running, AgentInv, Places
  <2>6. \A l \in Message : (Running(l))' =>
          serving'[l] \in 1..Len(state') /\ state'[serving'[l]] # "IDLE"
    BY <1>0, <2>1, <2>4, <2>5
  <2> HIDE DEF n
  <2>7. \A l, i \in Message : (Running(l))' /\ (Running(i))' /\ serving'[l] = serving'[i] => l = i
    BY <2>1, <2>5 DEF AgentInv
  <2>8. IsCache(A!Contents', Len(state')) /\ (stopping' = "no" => Accounts(A!Contents', Len(state')))
    BY <2>1, <2>4 DEF AgentInv, n
  <2>9. Cardinality(A!Keys(cache')) <= CacheSize /\ DOMAIN serving' = Message
    BY <2>1 DEF AgentInv
  <2> QED BY Zenon, <2>4, <2>5, <2>6, <2>7, <2>8, <2>9 DEF AgentInv, A!Keys, IsCache, Accounts
<1>4. ASSUME A!Tick PROVE AgentInv'
  <2>1. /\ cache' = cache /\ cached' = cached /\ cleaned' = cleaned /\ state' = state
        /\ stopping' = stopping /\ mpc' = mpc /\ serving' = serving
        /\ idle' = [s \in A!Session |-> IF idle[s] \in 0..IdleTTL THEN idle[s] + 1 ELSE idle[s]]
    BY <1>4 DEF A!Tick
  <2>2. NoAgent \notin Nat /\ IdleTTL \in Nat
    BY AgentsAssumption
  <2>3. /\ idle \in [A!Session -> Nat \union {NoAgent}]
        /\ A!Contents.order = cache /\ A!Contents.agent = cached /\ A!Contents.idle = idle
        /\ A!Contents.gone = cleaned
    BY DEF AgentInv, IsCache, A!Contents
  <2>4. /\ idle' \in [A!Session -> Nat \union {NoAgent}]
        /\ \A s \in A!Session : idle'[s] # NoAgent <=> idle[s] # NoAgent
    BY <2>1, <2>2, <2>3
  <2>5. IsCache(A!Contents, n) /\ (stopping = "no" => Accounts(A!Contents, n))
    BY DEF AgentInv
  <2>6. A!Contents' = [order |-> cache, agent |-> cached, idle |-> idle', gone |-> cleaned]
    BY <2>1 DEF A!Contents
  <2>7. IsCache([order |-> cache, agent |-> cached, idle |-> idle', gone |-> cleaned], n)
    BY <2>3, <2>4, <2>5 DEF IsCache
  <2>8. Accounts(A!Contents, n) => Accounts([order |-> cache, agent |-> cached, idle |-> idle', gone |-> cleaned], n)
    BY <2>3 DEF Accounts
  <2>9. IsCache(A!Contents', Len(state')) /\ (stopping' = "no" => Accounts(A!Contents', Len(state')))
    BY <2>1, <2>5, <2>6, <2>7, <2>8
  <2> QED BY <2>1, <2>9 DEF AgentInv, Running, A!Keys
<1>5. ASSUME A!Stop PROVE AgentInv'
  <2>1. /\ cache' = cache /\ cached' = cached /\ idle' = idle /\ state' = state
        /\ stopping' # "no" /\ mpc' = mpc /\ serving' = serving
        /\ cleaned' \subseteq cleaned \union ({cached[s] : s \in A!Session} \ {NoAgent})
    BY <1>5 DEF A!Stop
  <2>2. /\ A!Contents.order = cache /\ A!Contents.agent = cached /\ A!Contents.idle = idle
        /\ A!Contents.gone = cleaned
    BY DEF A!Contents
  <2>3. IsCache(A!Contents, n)
    BY DEF AgentInv
  <2>4. cleaned' \subseteq 1..n
    BY <2>1, <2>2, <2>3 DEF IsCache
  <2>5. A!Contents' = [order |-> cache, agent |-> cached, idle |-> idle, gone |-> cleaned']
    BY <2>1 DEF A!Contents
  <2>6. IsCache([order |-> cache, agent |-> cached, idle |-> idle, gone |-> cleaned'], n)
    BY <2>2, <2>3, <2>4 DEF IsCache
  <2>7. IsCache(A!Contents', Len(state'))
    BY <2>1, <2>5, <2>6
  <2> QED BY <2>1, <2>7 DEF AgentInv, Running, A!Keys
<1>6. ASSUME A!Stopped PROVE AgentInv'
  <2>1. /\ cache' = {} /\ cleaned' = cleaned /\ state' = state
        /\ cached' = [s \in A!Session |-> NoAgent] /\ idle' = [s \in A!Session |-> NoAgent]
        /\ stopping' = "stopped" /\ mpc' = mpc /\ serving' = serving
    BY <1>6 DEF A!Stopped
  <2>2. cleaned \subseteq 1..n
    BY DEF AgentInv, IsCache, A!Contents
  <2>3. A!Contents' = [order |-> {}, agent |-> [s \in A!Session |-> NoAgent],
                       idle |-> [s \in A!Session |-> NoAgent], gone |-> cleaned]
    BY <2>1 DEF A!Contents
  <2>4. IsCache([order |-> {}, agent |-> [s \in A!Session |-> NoAgent],
                 idle |-> [s \in A!Session |-> NoAgent], gone |-> cleaned], n)
    BY <2>2 DEF IsCache, A!Keys
  <2>5. IsCache(A!Contents', Len(state'))
    BY <2>1, <2>3, <2>4
  <2>6. A!Keys(cache') = {}
    BY <2>1 DEF A!Keys
  <2>7. /\ Cardinality(A!Keys(cache')) <= CacheSize
        /\ stopping' # "no"
    <3>1. Cardinality({}) = 0 /\ 0 <= CacheSize
      BY FS_EmptySet, AgentsAssumption
    <3>2. Cardinality(A!Keys(cache')) <= CacheSize
      BY Zenon, <2>6, <3>1
    <3>3. stopping' # "no"
      BY <2>1
    <3> QED BY <3>2, <3>3
  <2>8. state' = state /\ mpc' = mpc /\ serving' = serving
    BY <2>1
  <2> QED BY <2>5, <2>7, <2>8 DEF AgentInv, Running, A!Keys, IsCache
<1>7. CASE UNCHANGED agentVars
  <2>1. /\ A!Contents' = A!Contents /\ cache' = cache /\ state' = state /\ serving' = serving
        /\ stopping' = stopping /\ mpc' = mpc
    BY <1>7, SameCache DEF agentVars
  <2> QED BY <2>1 DEF AgentInv, Running, A!Keys, IsCache, Accounts
<1> QED BY <1>1, <1>2, <1>3, <1>4, <1>5, <1>6, <1>7 DEF A!Next

LEMMA AccountedFollows == AgentInv => AgentsAccounted
<1> SUFFICES ASSUME AgentInv PROVE A!AgentsAccounted
  BY DEF AgentsAccounted
<1>0. /\ A!Contents.order = cache /\ A!Contents.agent = cached /\ A!Contents.idle = idle
      /\ A!Contents.gone = cleaned /\ NoAgent \notin Nat
      /\ A!Keys(cache) \subseteq A!Session
  BY AgentsAssumption DEF A!Contents, A!Keys
<1>1. A!Cardinality(A!Keys(cache)) <= CacheSize
  BY SameCount DEF AgentInv
<1>2. A!Keys(cache) = {s \in A!Session : idle[s] # NoAgent}
  BY <1>0 DEF AgentInv, IsCache
<1>3. ASSUME stopping = "no", NEW a \in DOMAIN state
      PROVE  A!Cardinality({s \in A!Keys(cache) : cached[s] = a}) = IF a \in cleaned THEN 0 ELSE 1
  <2>1. a \in 1..Len(state) /\ a # NoAgent
    BY <1>0 DEF AgentInv
  <2>2. a \in cleaned <=> \A s \in A!Session : cached[s] # a
    BY <1>0, <1>3, <2>1 DEF AgentInv, Accounts
  <2>3. CASE a \in cleaned
    <3>1. {s \in A!Keys(cache) : cached[s] = a} = {}
      BY <1>0, <2>2, <2>3
    <3> QED BY <2>3, <3>1, FS_EmptySet, SameCount
  <2>4. CASE a \notin cleaned
    <3>1. PICK s \in A!Session : cached[s] = a
      BY <2>2, <2>4
    <3>2. s \in A!Keys(cache) /\ \A t \in A!Session : cached[t] = a => t = s
      BY <1>0, <2>1, <3>1 DEF AgentInv, IsCache
    <3>3. {t \in A!Keys(cache) : cached[t] = a} = {s}
      BY <1>0, <3>1, <3>2
    <3>4. Cardinality({s}) = 1
      BY FS_Singleton
    <3> QED BY <2>4, <3>3, <3>4, SameCount
  <2> QED BY <2>3, <2>4
<1>4. \A m, l \in Message : {mpc[m], mpc[l]} \subseteq {"opening", "running", "closing"}
        => serving[m] # serving[l] \/ m = l
  BY DEF AgentInv, Running
<1> QED BY <1>1, <1>2, <1>3, <1>4 DEF A!AgentsAccounted

-----------------------------------------------------------------------------
(* The services beside each other.                                         *)

\* A step of MCServices is one of a service and leaves the others as they are.
LEMMA StepOfOne ==
  ASSUME [(FirstNext \/ OtherNext) /\ UNCHANGED scenario]_<<firstVars, otherVars, scenario>>
  PROVE  [GitNext]_gitVars /\ [D!DeviceNext]_nodeVars /\ [T!TrackersNext]_trackerVars
         /\ [J!CronNext]_jobVars /\ [A!Next]_agentVars
<1>1. CASE FirstNext
  BY <1>1 DEF FirstNext, otherVars
<1>2. CASE OtherNext
  BY <1>2 DEF OtherNext, firstVars
<1>3. CASE UNCHANGED <<firstVars, otherVars, scenario>>
  BY <1>3 DEF firstVars, otherVars
<1> QED BY <1>1, <1>2, <1>3

Reports == TypeInv /\ ReportInv /\ TrackerInv

LEMMA FirstReports == MCInit => Reports
<1> SUFFICES ASSUME MCInit PROVE Reports
  OBVIOUS
<1>1. GitInit /\ T!TrackersInit
  BY DEF MCInit
<1>2. TypeInv
  BY <1>1, ProviderAssumption DEF GitInit, TypeInv
<1>3. ReportInv
  <2>1. service \in Services /\ op \in [Call -> PacedOps \cup UnpacedOps]
    BY <1>1 DEF GitInit
  <2>2. /\ made = [c \in Call |-> 0] /\ result = [c \in Call |-> None]
        /\ at = [c \in Call |-> 1]
    BY <1>1 DEF GitInit
  <2>3. ASSUME NEW c \in Call, op[c] \in Mutating PROVE 1 \in 1..Len(Plan(c))
    <3>1. Plan(c) \in Changing
      BY <2>1, <2>3, RestChanges, LibraryChanges, ServicesAssumption DEF Plan
    <3> QED BY <3>1, ChangesLast
  <2> QED BY <2>1, <2>2, <2>3 DEF ReportInv, ReportsAgree, None
<1>4. TrackerInv
  BY <1>1 DEF T!TrackersInit, TrackerInv, HttpLibrary, T!ReportedIsApplied
<1> QED BY <1>2, <1>3, <1>4 DEF Reports

\* What an operation of a git service, of Jira, of Linear or of Slack reports is what
\* the service did, whichever HTTP library is there, whatever the answers, and however
\* many calls run at once: git_providers/*.py and integrations/{jira,linear,slack}.py.
\* Two reports of Jira, which aiohttp lets through unread, stay out: Jira_transition
\* shows one of them wrong.
THEOREM ReportsAreTrue == MCSpec => []EveryReportAgrees
<1>1. MCInit => Reports
  BY FirstReports
<1>2. Reports /\ [(FirstNext \/ OtherNext) /\ UNCHANGED scenario]_<<firstVars, otherVars, scenario>>
        => Reports'
  BY StepOfOne, TypeStep, ReportStep, TrackersStep DEF Reports
<1>3. Reports => EveryReportAgrees
  BY DEF Reports, ReportInv, TrackerInv, EveryReportAgrees
<1> QED BY <1>1, <1>2, <1>3, PTL DEF MCSpec

LEMMA FirstBroadcast == MCInit => BroadcastInv
<1>1. D!DeviceInit => BroadcastInv
  <2> SUFFICES ASSUME D!DeviceInit PROVE BroadcastInv
    OBVIOUS
  <2>1. /\ dat = [b \in {0, 1} |-> "idle"] /\ target = [b \in {0, 1} |-> NoDevice]
        /\ cursor = [b \in {0} |-> {}] /\ changed = [b \in {0} |-> FALSE]
        /\ offered = [b \in {0} |-> {}] /\ steady = [b \in {0} |-> {}]
    BY DEF D!DeviceInit, D!Task
  <2> QED BY <2>1 DEF BroadcastInv
<1> QED BY <1>1 DEF MCInit

\* A broadcast that returns has sent to every device that was reachable from its
\* beginning to its end, however many nodes come, go, move and lose their connection
\* while it waits for another: manager.py, lines 201-222.
THEOREM BroadcastsReach == MCSpec => BroadcastReaches
<1> DEFINE Reaching == dat[0] = "sending" /\ dat'[0] = "idle" => steady[0] \subseteq offered[0]
<1>1. MCInit => BroadcastInv
  BY FirstBroadcast
<1>2. BroadcastInv
      /\ [(FirstNext \/ OtherNext) /\ UNCHANGED scenario]_<<firstVars, otherVars, scenario>>
        => BroadcastInv' /\ Reaching
  BY StepOfOne, BroadcastStep
<1>3. Reaching => [\A b \in {0} : dat[b] = "sending" /\ dat'[b] = "idle"
                                    => steady[b] \subseteq offered[b]]_D!deviceVars
  OBVIOUS
<1>4. MCSpec => [][\A b \in {0} : dat[b] = "sending" /\ dat'[b] = "idle"
                                    => steady[b] \subseteq offered[b]]_D!deviceVars
  BY <1>1, <1>2, <1>3, PTL DEF MCSpec
<1> QED BY <1>4 DEF BroadcastReaches, D!BroadcastReaches

\* No due time of a scheduled job is run twice, across slow runs, crashes in the middle
\* of a save, restarts and commands, unless the job was triggered, its run could not be
\* saved or the command line wrote an older table over the scheduler's: cron.py.
THEOREM RunsNoDueTwice == MCSpec => J!NoneTwice
<1> DEFINE NotTwice == \A j \in started \ (started' \cup orphaned) :
                          up' # "down" => last[j] < now \/ j \in excused
<1>1. MCInit => JobInv
  BY DEF MCInit, J!CronInit, JobInv
<1>2. JobInv
      /\ [(FirstNext \/ OtherNext) /\ UNCHANGED scenario]_<<firstVars, otherVars, scenario>>
        => JobInv' /\ NotTwice
  BY StepOfOne, JobStep, BegunOnce
<1>3. NotTwice => [NotTwice]_J!cronVars
  OBVIOUS
<1> HIDE DEF NotTwice
<1>4. MCSpec => [][NotTwice]_J!cronVars
  BY <1>1, <1>2, <1>3, PTL DEF MCSpec
<1> QED BY <1>4 DEF J!NoneTwice, NotTwice

\* No agent is made at first.
LEMMA FirstAgents == MCInit => AgentInv
<1> SUFFICES ASSUME A!Init PROVE AgentInv
  BY DEF MCInit
<1>1. /\ cache = {} /\ cached = [s \in A!Session |-> NoAgent]
      /\ idle = [s \in A!Session |-> NoAgent] /\ state = <<>> /\ cleaned = {}
      /\ mpc = [m \in Message |-> "sent"] /\ serving = [m \in Message |-> NoAgent]
  BY DEF A!Init
<1>2. Len(state) = 0 /\ state \in Seq(AgentStates) /\ 1..0 = {}
  BY <1>1
<1>3. A!Contents = [order |-> {}, agent |-> [s \in A!Session |-> NoAgent],
                    idle |-> [s \in A!Session |-> NoAgent], gone |-> {}]
  BY <1>1 DEF A!Contents
<1>4. IsCache([order |-> {}, agent |-> [s \in A!Session |-> NoAgent],
               idle |-> [s \in A!Session |-> NoAgent], gone |-> {}], 0)
  BY DEF IsCache, A!Keys
<1>5. IsCache(A!Contents, Len(state)) /\ Accounts(A!Contents, Len(state))
  BY <1>2, <1>3, <1>4 DEF Accounts
<1>6. A!Keys(cache) = {} /\ Cardinality({}) = 0 /\ CacheSize \in Nat
  BY <1>1, FS_EmptySet, AgentsAssumption DEF A!Keys
<1>7. Cardinality(A!Keys(cache)) <= CacheSize
  BY <1>6
<1>8. /\ mpc \in [Message -> Places] /\ DOMAIN serving = Message
      /\ \A m \in Message : ~Running(m)
  BY <1>1 DEF Places, Running
<1> QED BY <1>2, <1>5, <1>7, <1>8 DEF AgentInv

\* The cache of agents keeps within its size and in step with its times of last use, every
\* agent made is cached for one session or was sent to cleanup, and none serves two messages
\* at a time, for any messages, size and time to live: router.py 134-220, gateway.py 115-151.
THEOREM AgentsKept == MCSpec => []AgentsAccounted
<1>1. AgentInv
      /\ [(FirstNext \/ OtherNext) /\ UNCHANGED scenario]_<<firstVars, otherVars, scenario>>
        => AgentInv'
  BY StepOfOne, AgentStep
<1> QED BY <1>1, FirstAgents, AccountedFollows, PTL DEF MCSpec

--------------------------------------------------------------------------------
\* The stuck detector reports the repeated pairs that are in its window: the scans pair
\* each action with the observation after it and keep the newest of these pairs.

Acts(w, failures) ==
  {k \in P!ActionsIn(w) : failures => \E e \in P!ObservedAfter(w, k) : P!IsFailed(e)}

\* A pair is of an action and the observation after it, or of none there is.
Paired(w, k, p) ==
  p[1] = w[k] /\ P!ObservedAfter(w, k) = IF p[2] = P!User THEN {} ELSE {p[2]}

\* An action before another one, with no observation between them.
HeldUp(w, k) ==
  /\ k \in P!ActionsIn(w)
  /\ \E j \in P!ActionsIn(w) : /\ k < j
                              /\ \A m \in DOMAIN w : k < m /\ m < j =>
                                    w[m].kind \notin {"action", "observation"}

\* The actions that pairs are of are the newest of those that a scan has come by.
Newest(f, acts, n) ==
  /\ \A a, b \in 1..n : a < b => f[a] < f[b]
  /\ \A k \in acts : \/ \E a \in 1..n : f[a] = k
                     \/ n = RepeatThreshold /\ \A a \in 1..n : k < f[a]

\* A scan is held up, or has the newest pairs of those before the place it is at.
ScanKept(w, acts, i, ps) ==
  /\ ps \in Seq(P!Event \X P!Event) /\ Len(ps) <= RepeatThreshold
  /\ \E f \in [1..Len(ps) -> {k \in acts : k < i}] :
       /\ Newest(f, {k \in acts : k < i}, Len(ps))
       /\ \A a \in 1..Len(ps) : Paired(w, f[a], ps[a])

StuckInv ==
  /\ log \in Seq(P!Event) /\ scanned \in Nat \ {0} /\ pairs \in Seq(P!Event \X P!Event)
  /\ scan \in {"idle", "answers", "errors", "answered"}
  /\ scan = "answers" =>
        /\ report = "none"
        /\ HeldUp(P!Window, scanned) \/ ScanKept(P!Window, Acts(P!Window, FALSE), scanned, pairs)
  /\ scan = "errors" =>
        /\ report = "none" /\ ~P!SameAnswers(P!Window, P!ActionsIn(P!Window))
        /\ HeldUp(P!Window, scanned) \/ ScanKept(P!Window, Acts(P!Window, TRUE), scanned, pairs)
  /\ P!ReportedRight

------------------------------------------------------------------------------------------------------------------------
LEMMA Least ==
  ASSUME NEW some \in SUBSET Nat, some # {}
  PROVE  P!Min(some) \in some /\ \A k \in some : P!Min(some) <= k
<1>1. PICK m \in some : \A n \in some : <<n, m>> \notin OpToRel(<, Nat)
  BY WFMin, NatLessThanWellFounded, Zenon
<1>2. \A n \in some : ~(n < m)
  BY <1>1, Zenon DEF OpToRel
<1>3. \E x \in some : \A y \in some : x =< y
  BY <1>2
<1> QED BY <1>3, Zenon DEF P!Min

\* The event that a scan looks ahead to is the first action or observation.
LEMMA AfterIs ==
  ASSUME NEW w \in Seq(P!Event), scanned \in DOMAIN w, NEW j, j = P!After(w)
  PROVE  \/ /\ j = 0
            /\ \A m \in DOMAIN w : scanned < m => w[m].kind \notin {"action", "observation"}
         \/ /\ j \in DOMAIN w /\ scanned < j /\ w[j].kind \in {"action", "observation"}
            /\ \A m \in DOMAIN w : scanned < m /\ m < j => w[m].kind \notin {"action", "observation"}
<1> DEFINE I == {m \in (scanned + 1)..Len(w) : w[m].kind \in {"action", "observation"}}
<1>1. j = IF I # {} THEN P!Min(I) ELSE 0
  BY DEF P!After, P!SelectInSubSeq
<1>2. DOMAIN w = 1..Len(w) /\ Len(w) \in Nat
  OBVIOUS
<1>3. I \in SUBSET Nat
  BY <1>2
<1>4. \A m : m \in I <=> m \in DOMAIN w /\ scanned < m /\ w[m].kind \in {"action", "observation"}
  BY <1>2
<1> HIDE DEF I
<1>5. CASE I = {}
  BY <1>1, <1>4, <1>5
<1>6. CASE I # {}
  <2>1. j \in I /\ \A k \in I : j <= k
    BY <1>1, <1>3, <1>6, Least
  <2> QED BY <2>1, <1>2, <1>4
<1> QED BY <1>5, <1>6

LEMMA ObservedFirst ==
  ASSUME NEW w \in Seq(P!Event), NEW k \in DOMAIN w, NEW j \in DOMAIN w, k < j,
         w[j].kind = "observation",
         \A m \in DOMAIN w : k < m /\ m < j => w[m].kind # "observation"
  PROVE  P!ObservedAfter(w, k) = {w[j]}
<1>0. DOMAIN w = 1..Len(w) /\ Len(w) \in Nat
  OBVIOUS
<1>1. ASSUME NEW n \in DOMAIN w, n > k, w[n].kind = "observation",
             \A m \in (k + 1)..(n - 1) : w[m].kind # "observation"
      PROVE  n = j
  BY <1>0, <1>1
<1>2. \A m \in (k + 1)..(j - 1) : w[m].kind # "observation"
  BY <1>0
<1> QED BY <1>0, <1>1, <1>2 DEF P!ObservedAfter

LEMMA ObservedNone ==
  ASSUME NEW w \in Seq(P!Event), NEW k \in DOMAIN w,
         \A m \in DOMAIN w : k < m => w[m].kind # "observation"
  PROVE  P!ObservedAfter(w, k) = {}
BY DEF P!ObservedAfter

LEMMA NoUser ==
  /\ P!User \in P!Event /\ P!User.kind = "user" /\ ~P!IsFailed(P!User)
  /\ \A e : P!IsFailed(e) => e.kind = "observation"
<1>1. P!User.kind = "user" /\ P!Observation("failed").kind = "observation"
  BY DEF P!User, P!Observation
<1>2. P!User \in P!Event
  BY DEF P!Event
<1> QED BY <1>1, <1>2 DEF P!IsFailed

--------------------------------------------------------------------------------
\* A round of a scan over an action keeps its pair, if it has the answer that counts.
LEMMA PairKept ==
  ASSUME NEW w \in Seq(P!Event), NEW failures \in BOOLEAN,
         NEW k \in P!ActionsIn(w), NEW other \in P!Event,
         P!ObservedAfter(w, k) = IF other = P!User THEN {} ELSE {other}
  PROVE  /\ Paired(w, k, <<w[k], other>>)
         /\ k \in Acts(w, failures) <=> (failures => P!IsFailed(other))
BY NoUser DEF Paired, Acts, P!ActionsIn

\* Nothing more has come by.
LEMMA ScanPasses ==
  ASSUME NEW w \in Seq(P!Event), NEW acts, NEW i \in Nat, NEW n \in Nat,
         ScanKept(w, acts, i, pairs), \A k \in acts : k < n <=> k < i
  PROVE  ScanKept(w, acts, n, pairs)
<1>1. {k \in acts : k < n} = {k \in acts : k < i}
  OBVIOUS
<1> QED BY <1>1 DEF ScanKept

\* A new pair is put behind the newest ones, the oldest of which may go.
LEMMA ScanKeeps ==
  ASSUME NEW w \in Seq(P!Event), NEW acts \in SUBSET Nat, NEW i \in acts, NEW n \in Nat, i < n,
         NEW p \in P!Event \X P!Event, Paired(w, i, p),
         ScanKept(w, acts, i, pairs), \A k \in acts : k < n <=> k <= i
  PROVE  ScanKept(w, acts, n, P!Kept(p))
<1> DEFINE old == {k \in acts : k < i}
           new == {k \in acts : k < n}
<1>0. RepeatThreshold \in Nat \ {0}
  BY StuckAssumption
<1>1. new = old \cup {i}
  <2>1. \A k \in acts : k <= i <=> k < i \/ k = i
    OBVIOUS
  <2> QED BY <2>1
<1>2. PICK f \in [1..Len(pairs) -> old] :
        /\ Newest(f, old, Len(pairs))
        /\ \A a \in 1..Len(pairs) : Paired(w, f[a], pairs[a])
  BY DEF ScanKept
<1>3. pairs \in Seq(P!Event \X P!Event) /\ Len(pairs) \in Nat /\ Len(pairs) <= RepeatThreshold
  BY DEF ScanKept
<1>4. i \notin old /\ \A k \in old : k < i
  OBVIOUS
<1>5. /\ \A a, b \in 1..Len(pairs) : a < b => f[a] < f[b]
      /\ \A k \in old : \/ \E a \in 1..Len(pairs) : f[a] = k
                        \/ Len(pairs) = RepeatThreshold /\ \A a \in 1..Len(pairs) : k < f[a]
  BY <1>2 DEF Newest
<1>6. \A a \in 1..Len(pairs) : f[a] \in old
  BY <1>2
<1>7. old \in SUBSET Nat /\ i \in Nat
  OBVIOUS
<1> HIDE DEF old, new
<1>8. CASE Len(pairs) < RepeatThreshold
  <2> DEFINE g == [a \in 1..(Len(pairs) + 1) |-> IF a = Len(pairs) + 1 THEN i ELSE f[a]]
             all == Append(pairs, p)
  <2>1. all \in Seq(P!Event \X P!Event) /\ Len(all) = Len(pairs) + 1
    BY <1>3
  <2>2. P!Kept(p) = all
    <3>1. P!Kept(p) = SubSeq(all, 1, Len(all))
      BY <2>1, <1>8, <1>3, <1>0 DEF P!Kept
    <3> QED BY <3>1, <2>1
  <2>3. \A a \in 1..Len(all) : all[a] = IF a = Len(pairs) + 1 THEN p ELSE pairs[a]
    BY <1>3
  <2>4. g \in [1..Len(all) -> new]
    BY <2>1, <1>6, <1>1, <1>3
  <2>5. Newest(g, new, Len(all))
    <3>1. \A a, b \in 1..Len(all) : a < b => g[a] < g[b]
      BY <2>1, <1>5, <1>6, <1>4, <1>3
    <3>2. \A k \in new : \E a \in 1..Len(all) : g[a] = k
      <4>1. \A k \in old : \E a \in 1..Len(pairs) : f[a] = k
        BY <1>5, <1>8
      <4>2. \A a \in 1..Len(pairs) : a \in 1..Len(all) /\ g[a] = f[a]
        BY <2>1, <1>3
      <4>3. Len(all) \in 1..Len(all) /\ g[Len(all)] = i
        BY <2>1, <1>3
      <4> HIDE DEF g, all
      <4> QED BY <4>1, <4>2, <4>3, <1>1
    <3> QED BY <3>1, <3>2 DEF Newest
  <2>6. \A a \in 1..Len(all) : Paired(w, g[a], all[a])
    BY <2>3, <2>1, <1>2, <1>3
  <2>7. Len(all) <= RepeatThreshold
    BY <2>1, <1>8, <1>3, <1>0
  <2> HIDE DEF g, all
  <2> QED BY <2>1, <2>2, <2>4, <2>5, <2>6, <2>7 DEF ScanKept, new
<1>9. CASE Len(pairs) = RepeatThreshold
  <2> DEFINE g == [a \in 1..Len(pairs) |-> IF a = Len(pairs) THEN i ELSE f[a + 1]]
             all == Append(pairs, p)
             rest == SubSeq(all, 2, Len(all))
  <2>1. all \in Seq(P!Event \X P!Event) /\ Len(all) = Len(pairs) + 1
        /\ \A a \in 1..Len(all) : all[a] = IF a = Len(pairs) + 1 THEN p ELSE pairs[a]
    BY <1>3
  <2>2. P!Kept(p) = rest
    BY <2>1, <1>9, <1>3, <1>0 DEF P!Kept
  <2>a. rest \in Seq(P!Event \X P!Event) /\ Len(rest) = Len(pairs)
        /\ \A a \in 1..Len(rest) : rest[a] = all[a + 1]
    <3> HIDE DEF all
    <3> QED BY <2>1, <1>3, <1>9, <1>0
  <2>3. \A a \in 1..Len(pairs) : rest[a] = IF a = Len(pairs) THEN p ELSE pairs[a + 1]
    <3> HIDE DEF all, rest
    <3> QED BY <2>1, <2>a, <1>3
  <2> HIDE DEF all, rest
  <2>4. g \in [1..Len(pairs) -> new]
    BY <1>6, <1>1, <1>3
  <2>5. Newest(g, new, Len(pairs))
    <3>1. \A a, b \in 1..Len(pairs) : a < b => g[a] < g[b]
      BY <1>5, <1>6, <1>4, <1>3
    <3>2. \A k \in new : \/ \E a \in 1..Len(pairs) : g[a] = k
                         \/ \A a \in 1..Len(pairs) : k < g[a]
      <4> SUFFICES ASSUME NEW k \in new PROVE \/ \E a \in 1..Len(pairs) : g[a] = k
                                              \/ \A a \in 1..Len(pairs) : k < g[a]
        OBVIOUS
      <4>0. Len(pairs) \in 1..Len(pairs) /\ g[Len(pairs)] = i /\ 1 \in 1..Len(pairs)
        BY <1>0, <1>3, <1>9
      <4>1. CASE k = i
        BY <4>0, <4>1
      <4>2. CASE \E a \in 1..Len(pairs) : f[a] = k
        <5>1. PICK a \in 1..Len(pairs) : f[a] = k
          BY <4>2
        <5>2. CASE a = 1
          <6>1. \A b \in 1..Len(pairs) : b # Len(pairs) => g[b] = f[b + 1] /\ b + 1 \in 1..Len(pairs) /\ 1 < b + 1
            BY <1>3
          <6>2. \A b \in 1..Len(pairs) : b # Len(pairs) => f[1] < g[b]
            BY <6>1, <1>5, <4>0
          <6>3. f[1] < i
            BY <4>0, <1>6, <1>4
          <6> QED BY <5>1, <5>2, <6>2, <6>3, <4>0
        <5>3. CASE a # 1
          <6>1. a - 1 \in 1..Len(pairs) /\ g[a - 1] = f[a]
            BY <1>3, <5>3
          <6> QED BY <6>1, <5>1
        <5> QED BY <5>2, <5>3
      <4>3. CASE k \in old /\ \A a \in 1..Len(pairs) : k < f[a]
        <5>1. \A b \in 1..Len(pairs) : g[b] = i \/ \E a \in 1..Len(pairs) : g[b] = f[a]
          BY <1>3
        <5> QED BY <5>1, <4>3, <1>4
      <4> QED BY <4>1, <4>2, <4>3, <1>1, <1>5
    <3> QED BY <3>1, <3>2, <1>9 DEF Newest
  <2>6. \A a \in 1..Len(pairs) : Paired(w, g[a], rest[a])
    BY <2>3, <1>2, <1>3
  <2> HIDE DEF g
  <2> QED BY <2>2, <2>a, <2>4, <2>5, <2>6, <1>3 DEF ScanKept, new
<1> QED BY <1>8, <1>9, <1>3, <1>0

--------------------------------------------------------------------------------
\* At its end a scan has the pairs of the newest actions, and finds them the same if they are.

LEMMA SameSize == \A S : P!Cardinality(S) = Cardinality(S)
BY DEF P!Cardinality, Cardinality

\* Two sets of the newest of some actions, of one size, are the same.
LEMMA NewestAreOne ==
  ASSUME NEW acts \in SUBSET Nat, NEW some \in SUBSET acts, NEW others \in SUBSET acts,
         IsFiniteSet(acts), Cardinality(some) = Cardinality(others),
         \A k \in some, m \in acts \ some : m < k,
         \A k \in others, m \in acts \ others : m < k
  PROVE  some = others
<1>1. IsFiniteSet(some) /\ IsFiniteSet(others)
  BY FS_Subset
<1>2. some \subseteq others \/ others \subseteq some
  <2>1. SUFFICES ASSUME NEW x \in some \ others, NEW y \in others \ some PROVE FALSE
    OBVIOUS
  <2>2. x \in Nat /\ y \in Nat /\ x < y /\ y < x
    BY <2>1
  <2> QED BY <2>2
<1>3. CASE some \subseteq others
  BY <1>1, <1>3, FS_Subset
<1>4. CASE others \subseteq some
  BY <1>1, <1>4, FS_Subset
<1> QED BY <1>2, <1>3, <1>4

\* What an ascending function has as its values.
LEMMA AsManyValues ==
  ASSUME NEW n \in Nat, NEW acts \in SUBSET Nat, NEW f \in [1..n -> acts],
         \A a, b \in 1..n : a < b => f[a] < f[b]
  PROVE  /\ IsFiniteSet({f[a] : a \in 1..n})
         /\ Cardinality({f[a] : a \in 1..n}) = n
<1> DEFINE values == {f[a] : a \in 1..n}
<1>1. f \in [1..n -> values]
  OBVIOUS
<1>2. \A a, b \in 1..n : f[a] = f[b] => a = b
  <2>1. \A a \in 1..n : f[a] \in Nat
    OBVIOUS
  <2> QED BY <2>1
<1>3. f \in Bijection(1..n, values)
  BY <1>1, <1>2 DEF Bijection, Injection, Surjection, IsInjective
<1>4. IsFiniteSet(1..n) /\ Cardinality(1..n) = n
  BY FS_Interval
<1> QED BY <1>3, <1>4, FS_Bijection DEF ExistsBijection

LEMMA ScanFinds ==
  ASSUME NEW w \in Seq(P!Event), NEW failures \in BOOLEAN,
         ScanKept(w, Acts(w, failures), scanned, pairs), scanned \in Nat, scanned > Len(w)
  PROVE  P!Repeats <=> P!SameAnswers(w, Acts(w, failures))
<1> DEFINE acts == Acts(w, failures)
<1>0. RepeatThreshold \in Nat \ {0} /\ DOMAIN w = 1..Len(w) /\ Len(w) \in Nat
  BY StuckAssumption
<1>1. acts \subseteq 1..Len(w)
  BY <1>0 DEF Acts, P!ActionsIn
<1> HIDE DEF acts
<1>2. IsFiniteSet(acts) /\ acts \in SUBSET Nat
  <2>1. IsFiniteSet(1..Len(w)) /\ acts \in SUBSET (1..Len(w))
    BY <1>1, <1>0, FS_Interval
  <2>2. IsFiniteSet(acts)
    BY <2>1, FS_Subset
  <2> QED BY <2>2, <1>1, <1>0
<1>3. {k \in acts : k < scanned} = acts
  <2>1. \A k \in acts : k \in 1..Len(w)
    BY <1>1
  <2>2. \A k \in 1..Len(w) : k < scanned
    BY <1>0
  <2> QED BY <2>1, <2>2
<1>4. PICK f \in [1..Len(pairs) -> acts] :
        /\ Newest(f, acts, Len(pairs))
        /\ \A a \in 1..Len(pairs) : Paired(w, f[a], pairs[a])
  BY <1>3 DEF ScanKept, acts
<1>5. pairs \in Seq(P!Event \X P!Event) /\ Len(pairs) \in Nat /\ Len(pairs) <= RepeatThreshold
  BY DEF ScanKept
<1>6. /\ \A a, b \in 1..Len(pairs) : a < b => f[a] < f[b]
      /\ \A k \in acts : \/ \E a \in 1..Len(pairs) : f[a] = k
                         \/ Len(pairs) = RepeatThreshold /\ \A a \in 1..Len(pairs) : k < f[a]
  BY <1>4 DEF Newest
<1> DEFINE values == {f[a] : a \in 1..Len(pairs)}
<1>7. values \subseteq acts /\ IsFiniteSet(values) /\ Cardinality(values) = Len(pairs)
  BY <1>2, <1>5, <1>6, AsManyValues
\* Pairs are the same if their actions and answers are.
<1>8. \A a, b \in 1..Len(pairs) :
        pairs[a] = pairs[b] <=>
          w[f[a]] = w[f[b]] /\ P!ObservedAfter(w, f[a]) = P!ObservedAfter(w, f[b])
  <2> SUFFICES ASSUME NEW a \in 1..Len(pairs), NEW b \in 1..Len(pairs)
      PROVE  pairs[a] = pairs[b] <=>
               w[f[a]] = w[f[b]] /\ P!ObservedAfter(w, f[a]) = P!ObservedAfter(w, f[b])
    OBVIOUS
  <2>1. /\ pairs[a] = <<pairs[a][1], pairs[a][2]>> /\ pairs[b] = <<pairs[b][1], pairs[b][2]>>
    <3>1. pairs[a] \in P!Event \X P!Event /\ pairs[b] \in P!Event \X P!Event
      BY <1>5
    <3> QED BY <3>1
  <2>2. /\ pairs[a][1] = w[f[a]] /\ pairs[b][1] = w[f[b]]
        /\ P!ObservedAfter(w, f[a]) = IF pairs[a][2] = P!User THEN {} ELSE {pairs[a][2]}
        /\ P!ObservedAfter(w, f[b]) = IF pairs[b][2] = P!User THEN {} ELSE {pairs[b][2]}
    BY <1>4 DEF Paired
  <2> QED BY <2>1, <2>2
<1>9. ASSUME P!Repeats PROVE P!SameAnswers(w, acts)
  <2>1. Len(pairs) = RepeatThreshold /\ \A a, b \in 1..Len(pairs) : pairs[a] = pairs[b]
    <3>1. Len(pairs) = RepeatThreshold /\ \A a \in DOMAIN pairs : pairs[a] = pairs[1]
      BY <1>9 DEF P!Repeats
    <3>2. DOMAIN pairs = 1..Len(pairs)
      BY <1>5
    <3> QED BY <3>1, <3>2
  <2>2. \A k \in values, m \in acts \ values : m < k
    BY <1>6
  <2>3. \A k, m \in values : w[k] = w[m] /\ P!ObservedAfter(w, k) = P!ObservedAfter(w, m)
    BY <2>1, <1>8
  <2>4. P!Cardinality(values) = RepeatThreshold
    BY <2>1, <1>7, SameSize
  <2>5. values \in SUBSET acts
    BY <1>7
  <2> HIDE DEF values
  <2> QED BY <2>2, <2>3, <2>4, <2>5 DEF P!SameAnswers
<1>10. ASSUME P!SameAnswers(w, acts) PROVE P!Repeats
  <2>1. PICK newest \in SUBSET acts :
          /\ P!Cardinality(newest) = RepeatThreshold
          /\ \A k \in newest, m \in acts \ newest : m < k
          /\ \A k, m \in newest : w[k] = w[m] /\ P!ObservedAfter(w, k) = P!ObservedAfter(w, m)
    BY <1>10 DEF P!SameAnswers
  <2>2. Cardinality(newest) = RepeatThreshold
    BY <2>1, SameSize
  <2>3. Len(pairs) = RepeatThreshold
    <3> SUFFICES ASSUME Len(pairs) < RepeatThreshold PROVE FALSE
      BY <1>5, <1>0
    <3>1. acts \subseteq values
      BY <1>6
    <3>2. newest \in SUBSET values
      BY <3>1
    <3>3. Cardinality(newest) <= Len(pairs)
      BY <3>2, <1>7, FS_Subset
    <3> QED BY <3>3, <2>2, <1>5, <1>0
  <2>4. \A k \in values, m \in acts \ values : m < k
    BY <1>6
  <2>5. newest = values
    <3>1. Cardinality(newest) = Cardinality(values) /\ values \in SUBSET acts
      BY <2>2, <2>3, <1>7
    <3> HIDE DEF values
    <3> QED BY <3>1, <2>1, <2>4, <1>2, NewestAreOne
  <2>6. \A a, b \in 1..Len(pairs) : pairs[a] = pairs[b]
    BY <2>1, <2>5, <1>8
  <2> QED BY <2>3, <2>6, <1>5, <1>0 DEF P!Repeats
<1> QED BY <1>9, <1>10 DEF acts

--------------------------------------------------------------------------------
\* One round of a scan.

LEMMA ScanStep ==
  ASSUME NEW w \in Seq(P!Event), NEW failures \in BOOLEAN, scanned \in DOMAIN w,
         P!Scans(w, failures), pairs \in Seq(P!Event \X P!Event),
         HeldUp(w, scanned) \/ ScanKept(w, Acts(w, failures), scanned, pairs)
  PROVE  /\ scanned' \in Nat \ {0} /\ pairs' \in Seq(P!Event \X P!Event)
         /\ HeldUp(w, scanned') \/ ScanKept(w, Acts(w, failures), scanned', pairs')
<1> DEFINE acts == Acts(w, failures)
           j == P!After(w)
           other == IF j > 0 /\ w[j].kind = "observation" THEN w[j] ELSE P!User
<1>0. DOMAIN w = 1..Len(w) /\ Len(w) \in Nat /\ scanned \in Nat \ {0}
  OBVIOUS
<1>1. \/ /\ j = 0
         /\ \A m \in DOMAIN w : scanned < m => w[m].kind \notin {"action", "observation"}
      \/ /\ j \in DOMAIN w /\ scanned < j /\ w[j].kind \in {"action", "observation"}
         /\ \A m \in DOMAIN w : scanned < m /\ m < j => w[m].kind \notin {"action", "observation"}
  <2> HIDE DEF j
  <2>1. j = P!After(w)
    BY DEF j
  <2> QED BY <2>1, AfterIs
<1>2. /\ scanned' = IF w[scanned].kind # "action" \/ j = 0 THEN scanned + 1
                    ELSE IF w[j].kind = "observation" THEN j + 1 ELSE scanned
      /\ pairs' = IF w[scanned].kind = "action" /\ (failures => P!IsFailed(other))
                  THEN P!Kept(<<w[scanned], other>>) ELSE pairs
  BY DEF P!Scans
<1>3. other \in P!Event /\ w[scanned] \in P!Event
  BY <1>1, NoUser
<1>4. acts \subseteq 1..Len(w) /\ acts \in SUBSET Nat
  BY <1>0 DEF Acts, P!ActionsIn
<1>5. \A k \in acts : w[k].kind = "action"
  BY DEF Acts, P!ActionsIn
<1> HIDE DEF acts, j, other
<1>6. pairs' \in Seq(P!Event \X P!Event)
  <2>1. \A p \in P!Event \X P!Event : P!Kept(p) \in Seq(P!Event \X P!Event)
    BY DEF P!Kept
  <2> QED BY <2>1, <1>2, <1>3
<1>7. scanned' \in Nat \ {0}
  BY <1>0, <1>1, <1>2
<1>8. CASE w[scanned].kind # "action"
  <2>1. scanned' = scanned + 1 /\ pairs' = pairs /\ scanned \notin acts
    BY <1>2, <1>5, <1>8
  <2>2. ScanKept(w, acts, scanned, pairs)
    BY <1>8 DEF HeldUp, P!ActionsIn, acts
  <2>3. \A k \in acts : k < scanned + 1 <=> k < scanned
    BY <2>1, <1>4, <1>0
  <2>4. ScanKept(w, acts, scanned + 1, pairs)
    BY <2>2, <2>3, <1>0, ScanPasses
  <2> QED BY <2>1, <2>4, <1>6, <1>7 DEF acts
<1>9. CASE w[scanned].kind = "action" /\ j # 0 /\ w[j].kind = "action"
  <2>1. scanned' = scanned
    BY <1>2, <1>9
  <2>2. HeldUp(w, scanned)
    BY <1>1, <1>9 DEF HeldUp, P!ActionsIn
  <2> QED BY <2>1, <2>2, <1>6, <1>7
<1>10. CASE w[scanned].kind = "action" /\ (j = 0 \/ w[j].kind = "observation")
  <2>1. scanned \in P!ActionsIn(w)
    BY <1>10 DEF P!ActionsIn
  <2>2. P!ObservedAfter(w, scanned) = IF other = P!User THEN {} ELSE {other}
    <3>1. CASE j = 0
      <4>1. other = P!User
        BY <3>1 DEF other
      <4>2. \A m \in DOMAIN w : scanned < m => w[m].kind # "observation"
        BY <3>1, <1>1, <1>0
      <4> QED BY <4>1, <4>2, ObservedNone
    <3>2. CASE j # 0
      <4>1. /\ j \in DOMAIN w /\ scanned < j /\ w[j].kind = "observation"
            /\ \A m \in DOMAIN w : scanned < m /\ m < j => w[m].kind # "observation"
        BY <3>2, <1>1, <1>10
      <4>2. other = w[j] /\ other # P!User
        BY <4>1, <1>0, NoUser DEF other
      <4>3. P!ObservedAfter(w, scanned) = {w[j]}
        BY <4>1, ObservedFirst
      <4> QED BY <4>2, <4>3
    <3> QED BY <3>1, <3>2
  <2>3. /\ Paired(w, scanned, <<w[scanned], other>>)
        /\ scanned \in acts <=> (failures => P!IsFailed(other))
    BY <2>1, <2>2, <1>3, PairKept DEF acts
  <2>4. ScanKept(w, acts, scanned, pairs)
    <3>1. ~HeldUp(w, scanned)
      <4>1. SUFFICES ASSUME NEW k \in P!ActionsIn(w), scanned < k,
                            \A m \in DOMAIN w : scanned < m /\ m < k =>
                               w[m].kind \notin {"action", "observation"}
                     PROVE  FALSE
        BY DEF HeldUp
      <4>2. k \in DOMAIN w /\ w[k].kind = "action"
        BY DEF P!ActionsIn
      <4>3. j # 0 /\ j \in DOMAIN w /\ scanned < j /\ w[j].kind = "observation" /\ ~(k < j)
        BY <4>1, <4>2, <1>1, <1>10
      <4>4. j < k
        BY <4>2, <4>3, <1>0
      <4> QED BY <4>1, <4>3, <4>4
    <3> QED BY <3>1 DEF acts
  <2>5. \A k \in acts : k < scanned' <=> k <= scanned
    <3>1. CASE j = 0
      <4>1. scanned' = scanned + 1
        BY <3>1, <1>2
      <4> QED BY <4>1, <1>4, <1>0
    <3>2. CASE j # 0
      <4>1. /\ scanned' = j + 1 /\ j \in DOMAIN w /\ scanned < j /\ w[j].kind = "observation"
            /\ \A m \in DOMAIN w : scanned < m /\ m < j => w[m].kind # "action"
        BY <3>2, <1>1, <1>2, <1>10
      <4> SUFFICES ASSUME NEW k \in acts PROVE k < j + 1 <=> k <= scanned
        BY <4>1
      <4>2. k \in DOMAIN w /\ w[k].kind = "action" /\ k # j
        BY <1>4, <1>5, <1>0, <4>1
      <4>3. ~(scanned < k /\ k < j)
        BY <4>1, <4>2
      <4> QED BY <4>1, <4>2, <4>3, <1>0
    <3> QED BY <3>1, <3>2
  <2>6. scanned < scanned'
    <3>1. scanned' = scanned + 1 \/ (scanned' = j + 1 /\ j \in DOMAIN w /\ scanned < j)
      BY <1>1, <1>2, <1>10
    <3> QED BY <3>1, <1>0
  <2>7. CASE failures => P!IsFailed(other)
    <3>1. scanned \in acts /\ pairs' = P!Kept(<<w[scanned], other>>)
      BY <2>7, <2>3, <1>2, <1>10
    <3>2. <<w[scanned], other>> \in P!Event \X P!Event
      BY <1>3
    <3>3. ScanKept(w, acts, scanned', P!Kept(<<w[scanned], other>>))
      BY <3>1, <3>2, <2>3, <2>4, <2>5, <2>6, <1>4, <1>7, ScanKeeps
    <3> QED BY <3>1, <3>3, <1>6, <1>7 DEF acts
  <2>8. CASE ~(failures => P!IsFailed(other))
    <3>1. scanned \notin acts /\ pairs' = pairs
      BY <2>8, <2>3, <1>2
    <3>2. \A k \in acts : k < scanned' <=> k < scanned
      BY <3>1, <2>5, <1>4, <1>0
    <3>3. ScanKept(w, acts, scanned', pairs)
      BY <3>2, <2>4, <1>0, <1>7, ScanPasses
    <3> QED BY <3>1, <3>3, <1>6, <1>7 DEF acts
  <2> QED BY <2>7, <2>8
<1> QED BY <1>1, <1>8, <1>9, <1>10

--------------------------------------------------------------------------------
\* The detector as a whole.

LEMMA WindowsAreLogs == log \in Seq(P!Event) => P!Window \in Seq(P!Event)
<1> SUFFICES ASSUME log \in Seq(P!Event) PROVE P!Window \in Seq(P!Event)
  OBVIOUS
<1>1. WindowSize \in Nat \ {0} /\ Len(log) \in Nat
  BY StuckAssumption
<1>2. CASE Len(log) > WindowSize
  BY <1>1, <1>2 DEF P!Window
<1>3. CASE ~(Len(log) > WindowSize)
  BY <1>1, <1>3 DEF P!Window
<1> QED BY <1>2, <1>3

LEMMA WindowStays ==
  ASSUME log' = log
  PROVE  P!Window' = P!Window /\ (P!Overflowing' <=> P!Overflowing)
<1>1. P!Window' = P!Window
  BY DEF P!Window
<1> QED BY <1>1 DEF P!Overflowing

\* A scan begins with no pair.
LEMMA ScanBegins == ASSUME NEW w, NEW acts \in SUBSET (Nat \ {0}) PROVE ScanKept(w, acts, 1, <<>>)
<1>1. <<>> \in Seq(P!Event \X P!Event) /\ Len(<<>>) = 0 /\ RepeatThreshold \in Nat /\ 1..0 = {}
  BY StuckAssumption
<1>2. {k \in acts : k < 1} = {}
  <2>1. \A k \in acts : ~(k < 1)
    <3>1. \A k \in Nat \ {0} : ~(k < 1)
      OBVIOUS
    <3> QED BY <3>1
  <2> QED BY <2>1
<1>3. [a \in {} |-> a] \in [{} -> {}]
  OBVIOUS
<1> DEFINE none == [a \in {} |-> a]
<1>4. none \in [1..Len(<<>>) -> {k \in acts : k < 1}]
  BY <1>1, <1>2, <1>3
<1>5. \A a \in 1..Len(<<>>) : FALSE
  BY <1>1
<1>6. Newest(none, {k \in acts : k < 1}, Len(<<>>))
  BY <1>2, <1>5, Zenon DEF Newest
<1>7. Len(<<>>) <= RepeatThreshold
  BY <1>1
<1> HIDE DEF none
<1> QED BY <1>1, <1>4, <1>5, <1>6, <1>7, Zenon DEF ScanKept

LEMMA ActsAre ==
  ASSUME NEW w \in Seq(P!Event), NEW failures \in BOOLEAN
  PROVE  Acts(w, failures) \in SUBSET (Nat \ {0})
BY DEF Acts, P!ActionsIn

LEMMA AllActs == \A w : Acts(w, FALSE) = P!ActionsIn(w)
BY DEF Acts

\* What is right of a report, of a window and whether it has too many errors.
Right(w, what, full) ==
  LET repeating == P!SameAnswers(w, P!ActionsIn(w))
      failing == P!SameAnswers(w, Acts(w, TRUE))
  IN /\ what = "repeating" <=> repeating
     /\ what = "failing" <=> failing /\ ~repeating
     /\ what = "none" => ~full

LEMMA RightIsReported ==
  P!ReportedRight <=> (scan = "answered" => Right(P!Window, report, P!Overflowing))
BY DEF P!ReportedRight, Right, Acts

LEMMA StuckStep ==
  ASSUME StuckInv, [P!StuckNext]_stuckVars
  PROVE  StuckInv'
<1> DEFINE w == P!Window
<1>0. /\ w \in Seq(P!Event) /\ log \in Seq(P!Event) /\ scanned \in Nat \ {0}
      /\ pairs \in Seq(P!Event \X P!Event)
      /\ DOMAIN w = 1..Len(w) /\ Len(w) \in Nat
  BY WindowsAreLogs DEF StuckInv
<1>a. scan = "answers" =>
        /\ report = "none"
        /\ HeldUp(w, scanned) \/ ScanKept(w, Acts(w, FALSE), scanned, pairs)
  BY DEF StuckInv
<1>b. scan = "errors" =>
        /\ report = "none" /\ ~P!SameAnswers(w, P!ActionsIn(w))
        /\ HeldUp(w, scanned) \/ ScanKept(w, Acts(w, TRUE), scanned, pairs)
  BY DEF StuckInv
<1>c. scan = "answered" => Right(w, report, P!Overflowing)
  BY RightIsReported DEF StuckInv
<1>d. ASSUME /\ log' \in Seq(P!Event) /\ scanned' \in Nat \ {0}
             /\ pairs' \in Seq(P!Event \X P!Event)
             /\ scan' \in {"idle", "answers", "errors", "answered"}
             /\ scan' = "answers" =>
                   /\ report' = "none"
                   /\ \/ HeldUp(P!Window', scanned')
                      \/ ScanKept(P!Window', Acts(P!Window', FALSE), scanned', pairs')
             /\ scan' = "errors" =>
                   /\ report' = "none" /\ ~P!SameAnswers(P!Window', P!ActionsIn(P!Window'))
                   /\ \/ HeldUp(P!Window', scanned')
                      \/ ScanKept(P!Window', Acts(P!Window', TRUE), scanned', pairs')
             /\ scan' = "answered" => Right(P!Window', report', P!Overflowing')
      PROVE  StuckInv'
  <2>1. P!ReportedRight'
    BY <1>d DEF P!ReportedRight, Right, Acts
  <2> QED BY <1>d, <2>1 DEF StuckInv
<1>e. scan \in {"idle", "answers", "errors", "answered"}
  BY DEF StuckInv
<1>f. <<>> \in Seq(P!Event \X P!Event) /\ 1 \in Nat \ {0}
  OBVIOUS
<1> HIDE DEF w
<1>g. ASSUME log' = log PROVE P!Window' = w /\ (P!Overflowing' <=> P!Overflowing)
  BY <1>g, WindowStays DEF w
<1>h. \A failures \in BOOLEAN : ScanKept(w, Acts(w, failures), 1, <<>>)
  BY <1>0, ActsAre, ScanBegins
<1>1. CASE P!Grow
  <2>1. PICK t \in Turns : log' = log \o t
    BY <1>1 DEF P!Grow
  <2>2. t \in Seq(P!Event)
    BY StuckAssumption
  <2>3. log' \in Seq(P!Event)
    BY <2>1, <2>2, <1>0
  <2>4. scan' = "idle" /\ scanned' = scanned /\ pairs' = pairs
    BY <1>1 DEF P!Grow
  <2> QED BY <1>0, <1>d, <2>3, <2>4
<1>2. CASE P!Analyze
  <2>1. /\ scan' = "answers" /\ scanned' = 1 /\ pairs' = <<>> /\ report' = "none" /\ log' = log
    BY <1>2 DEF P!Analyze
  <2> QED BY <1>0, <1>d, <1>f, <1>g, <1>h, <2>1
<1>3. CASE P!ScanAnswers
  <2>1. /\ scan = "answers" /\ scan' = scan /\ report' = report /\ log' = log
        /\ scanned <= Len(w) /\ P!Scans(w, FALSE)
    BY <1>3 DEF P!ScanAnswers, w
  <2>2. scanned \in DOMAIN w
    BY <2>1, <1>0
  <2>3. /\ scanned' \in Nat \ {0} /\ pairs' \in Seq(P!Event \X P!Event)
        /\ HeldUp(w, scanned') \/ ScanKept(w, Acts(w, FALSE), scanned', pairs')
    BY <2>1, <2>2, <1>0, <1>a, ScanStep
  <2> QED BY <1>0, <1>a, <1>d, <1>g, <2>1, <2>3
<1>4. CASE P!ScanErrors
  <2>1. /\ scan = "errors" /\ scan' = scan /\ report' = report /\ log' = log
        /\ scanned <= Len(w) /\ P!Scans(w, TRUE)
    BY <1>4 DEF P!ScanErrors, w
  <2>2. scanned \in DOMAIN w
    BY <2>1, <1>0
  <2>3. /\ scanned' \in Nat \ {0} /\ pairs' \in Seq(P!Event \X P!Event)
        /\ HeldUp(w, scanned') \/ ScanKept(w, Acts(w, TRUE), scanned', pairs')
    BY <2>1, <2>2, <1>0, <1>b, ScanStep
  <2> QED BY <1>0, <1>b, <1>d, <1>g, <2>1, <2>3
<1>i. ASSUME scanned > Len(w) PROVE ~HeldUp(w, scanned)
  BY <1>i, <1>0 DEF HeldUp, P!ActionsIn
<1>5. CASE P!AnswersScanned
  <2>1. /\ scan = "answers" /\ scanned > Len(w) /\ log' = log /\ scanned' = 1 /\ pairs' = <<>>
        /\ IF P!Repeats THEN scan' = "answered" /\ report' = "repeating"
           ELSE scan' = "errors" /\ report' = report
    BY <1>5 DEF P!AnswersScanned, w
  <2>2. P!Repeats <=> P!SameAnswers(w, P!ActionsIn(w))
    BY <2>1, <1>0, <1>a, <1>i, ScanFinds, AllActs
  <2>3. CASE P!Repeats
    <3>1. Right(w, "repeating", P!Overflowing)
      BY <2>2, <2>3 DEF Right
    <3> QED BY <1>0, <1>d, <1>f, <1>g, <2>1, <2>3, <3>1 DEF Right
  <2>4. CASE ~P!Repeats
    BY <1>0, <1>a, <1>d, <1>f, <1>g, <1>h, <2>1, <2>2, <2>4
  <2> QED BY <2>3, <2>4
<1>6. CASE P!Answer
  <2>1. /\ scan = "errors" /\ scanned > Len(w) /\ log' = log /\ scanned' = 1 /\ pairs' = <<>>
        /\ scan' = "answered"
        /\ report' = IF P!Repeats THEN "failing" ELSE IF P!Monologue THEN "monologue"
                     ELSE IF P!Alternating THEN "alternating"
                     ELSE IF P!Overflowing THEN "overflow" ELSE "none"
    BY <1>6 DEF P!Answer, w
  <2>2. P!Repeats <=> P!SameAnswers(w, Acts(w, TRUE))
    BY <2>1, <1>0, <1>b, <1>i, ScanFinds
  <2>3. Right(w, report', P!Overflowing)
    BY <2>1, <2>2, <1>b DEF Right
  <2> QED BY <1>0, <1>d, <1>f, <1>g, <2>1, <2>3 DEF Right
<1>7. CASE P!Nudge
  <2>1. scan' = "idle" /\ scanned' = scanned /\ pairs' = pairs
        /\ log' = IF report # "none" THEN Append(log, P!User) ELSE log
    BY <1>7 DEF P!Nudge
  <2>2. log' \in Seq(P!Event)
    BY <2>1, <1>0, NoUser
  <2> QED BY <1>0, <1>d, <2>1, <2>2
<1>8. CASE UNCHANGED stuckVars
  <2>1. UNCHANGED <<log, scan, scanned, pairs, report>>
    BY <1>8 DEF stuckVars
  <2> QED BY <1>0, <1>a, <1>b, <1>c, <1>d, <1>e, <1>g, <2>1 DEF Right
<1> QED BY <1>1, <1>2, <1>3, <1>4, <1>5, <1>6, <1>7, <1>8 DEF P!StuckNext, P!AnalyzeStep

\* When the detector has answered, a repeated pair is reported if it is in the window and
\* only then, so are repeated failures when no pair is repeated at all, and it finds nothing
\* only if there are few errors of the context: stuck_detector.py 290-397.
THEOREM ReportsTheStuck == MCSpec => []ReportedRight
<1>1. MCInit => StuckInv
  BY DEF MCInit, P!StuckInit, StuckInv, P!ReportedRight
<1>2. StuckInv /\ [(FirstNext \/ OtherNext) /\ UNCHANGED scenario]_<<firstVars, otherVars, scenario>>
        => StuckInv'
  BY StuckStep DEF FirstNext, OtherNext, firstVars, otherVars
<1>3. StuckInv => ReportedRight
  BY DEF StuckInv, ReportedRight
<1> QED BY <1>1, <1>2, <1>3, PTL DEF MCSpec
================================================================================

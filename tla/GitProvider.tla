------------------------------ MODULE GitProvider ------------------------------
(***************************************************************************)
(* app/git_providers/base.py: GitProviderService.  Every operation runs    *)
(* under the service's lock; the paced ones wait inside it until           *)
(* _min_interval has passed since _last_request_at and then set it.  The   *)
(* *_async() form of a paced operation waits once more, on the event loop  *)
(* and without the lock, before it hands the operation to a thread.        *)
(*                                                                         *)
(* What an operation asks of the provider is a plan, given first.  Time    *)
(* is counted in ticks, and counts stop at MinInterval.  A service keeps   *)
(* one token, which handle_callback() replaces.                            *)
(***************************************************************************)
EXTENDS Naturals, Sequences, FiniteSets

(***************************************************************************)
(* app/git_providers: what each operation of each service asks of its      *)
(* provider, as the sequence of the requests it makes.  Of a request:      *)
(*    ok      what may follow an answer that is as expected: "next" asks   *)
(*            the next request, "over" passes over the rest of a block,    *)
(*            anything else is the operation's result, which is "other"    *)
(*            when the answer cannot be made into what it should return    *)
(*    on      what follows an error                                        *)
(*       "raise"    the error is the operation's own                       *)
(*       "else"     a 4xx may make it try its next request instead         *)
(*       "skip"     the error is swallowed and the block is left           *)
(*       "end"      the error is swallowed and the operation returns       *)
(*       "false"    a 4xx makes the operation return False                 *)
(*       "never"    every error makes the operation return False           *)
(*       "fatal"    every error becomes a NonRetryableError                *)
(*    rest    the requests of its block that follow it                     *)
(* What changes something at the provider is the last request of its       *)
(* operation.  URLs, payloads and the pages of a list are left out, and so *)
(* are the calls that ask nothing: a search of Bitbucket without a         *)
(* repository, and Azure's without an organization.                        *)
(***************************************************************************)

CONSTANT MaxPulls    \* bound: open pull requests, and work items, an operation visits

\* The operations of GitProviderService (base.py), by who may follow whom: the
\* paced ones take the lock and keep the minimal interval, the others only the
\* lock.
RepositoryOps == {"get_repos", "get_repo", "get_branches"}
PullOps == {"get_pull_requests", "get_pr", "create_pr"}
IssueOps == {"get_issues", "get_issue", "create_issue", "comment_on_issue"}
ContentOps == {"search_code", "get_file_content", "get_suggested_tasks"}
WebhookOps == {"register_webhook", "delete_webhook"}
UserOps == {"get_authenticated_user"}
UnpacedOps == {"handle_callback", "validate_token"}

PacedOps == RepositoryOps \cup PullOps \cup IssueOps \cup ContentOps \cup WebhookOps
            \cup UserOps
Mutating == {"create_pr", "create_issue", "comment_on_issue", "register_webhook",
             "delete_webhook"}

Asks == [ok |-> {"ok"}, on |-> "raise", rest |-> 0]
Then == [Asks EXCEPT !.ok = {"next"}]
Perhaps == [Asks EXCEPT !.ok = {"next", "ok"}]
Alternative == [Asks EXCEPT !.on = "else"]
Refuses == [Asks EXCEPT !.on = "false"]
Checks == [Asks EXCEPT !.on = "never"]
Final == [Asks EXCEPT !.on = "fatal"]
SignsIn == [Final EXCEPT !.ok = {"ok", "fatal"}]     \* an answer may say "error"
Entry == [Asks EXCEPT !.ok = {"ok", "fatal"}]        \* a directory is no file
Unread == [Asks EXCEPT !.ok = {"ok", "other"}]       \* nothing found, or a field nobody has
Broken == [Asks EXCEPT !.ok = {"other"}]             \* a field nobody has

One == <<Asks>>

\* n requests in one try block whose errors are swallowed.
Block(n) == [i \in 1..n |-> [ok |-> {"next"}, on |-> "skip", rest |-> n - i]]

\* get_suggested_tasks(): its issues, n requests that list the pull requests, perhaps
\* none, and the blocks of each pull request.
Tasks(issues, n, each) ==
    issues \o [i \in 1..n |-> [Perhaps EXCEPT !.on = "end"]]
    \o [i \in 1..(Len(each) * MaxPulls) |-> each[((i - 1) % Len(each)) + 1]]

-----------------------------------------------------------------------------
(* Errors.  An answer is "ok", "limited" (429), "server" (5xx), "client"   *)
(* (another 4xx), "network" (none arrived) or "odd" (another status, or a  *)
(* body that is not JSON).                                                 *)

Answer == {"ok", "limited", "server", "client", "network", "odd"}

\* A mutant of GithubRest: a network error is reported as final.
NetworkIsFinal ==
    [ok |-> "ok", limited |-> "retryable", server |-> "retryable",
     client |-> "fatal", network |-> "fatal", odd |-> "other"]

\* _rest_request() of the five services.
GithubRest ==
    [ok |-> "ok", limited |-> "retryable", server |-> "retryable",
     client |-> "fatal", network |-> "retryable", odd |-> "other"]
GitlabRest == GithubRest
AzureRest == GithubRest
BitbucketRest == GithubRest
ForgejoRest == GithubRest

\* get_file_content() of Bitbucket reads the status by hundreds, and no JSON.
BitbucketFile == [BitbucketRest EXCEPT !.limited = "fatal", !.odd = "retryable"]

\* The client libraries, where they are installed: PyGithub's exceptions are
\* told apart, for webhooks and the user no more, and one that is not of them
\* passes; whatever python-gitlab raises is final but a 429 of get_repos(), and
\* its search goes by REST.
GithubClient ==
    [op \in PacedOps \cup UnpacedOps |->
        [ok |-> "ok", server |-> "fatal", client |-> "fatal", network |-> "other", odd |-> "fatal",
         limited |-> IF op \in WebhookOps \cup UserOps THEN "fatal" ELSE "retryable"]]
GitlabClient ==
    [op \in PacedOps \cup UnpacedOps |->
        IF op = "search_code" THEN GitlabRest
        ELSE [a \in Answer |->
                CASE a = "ok" -> "ok"
                  [] a = "limited" /\ op = "get_repos" -> "retryable"
                  [] OTHER -> "fatal"]]

-----------------------------------------------------------------------------
(* The services.                                                           *)

GithubRepositories == [op \in RepositoryOps |-> One]
GithubPulls == [op \in PullOps |-> One]
GithubIssues == [get_issues |-> One, get_issue |-> <<Unread>>, create_issue |-> One]
GithubContent ==
    [comment_on_issue |-> One, search_code |-> <<Unread>>, get_file_content |-> <<Entry>>]
GithubTasks == [get_suggested_tasks |-> Tasks(Block(1), 1, Block(1) \o Block(1))]
GithubCallback == [handle_callback |-> <<SignsIn>>]
GithubWebhooks == [register_webhook |-> One, delete_webhook |-> <<Refuses>>]
GithubAccount == [validate_token |-> <<Checks>>, get_authenticated_user |-> One]

\* With an owner, get_repos() tries a group and then a user; the branches need
\* the repository's default branch.
GitlabRepositories ==
    [get_repos |-> <<Alternative, Asks>>, get_repo |-> One, get_branches |-> <<Then, Asks>>]
GitlabPulls == [op \in PullOps |-> One]
GitlabIssues == [op \in IssueOps \ {"comment_on_issue"} |-> One]
GitlabContent == [comment_on_issue |-> One, search_code |-> <<Unread>>, get_file_content |-> One]
GitlabTasks == [get_suggested_tasks |-> Tasks(Block(1), 1, Block(1) \o Block(1) \o Block(1))]
GitlabCallback == [handle_callback |-> <<SignsIn>>]
GitlabWebhooks == [register_webhook |-> One, delete_webhook |-> <<Refuses>>]
GitlabAccount == [validate_token |-> <<Checks>>, get_authenticated_user |-> One]

\* get_issues() runs a query, which may name none, and reads each work item.
WorkItems == [i \in 1..MaxPulls |-> Block(1)[1]]

AzureRepositories == [op \in RepositoryOps |-> One]
AzurePulls == [op \in PullOps |-> One]
AzureIssues ==
    [get_issues |-> <<Perhaps>> \o WorkItems, get_issue |-> One,
     create_issue |-> One, comment_on_issue |-> One]
AzureContent == [search_code |-> <<Unread>>, get_file_content |-> <<Final>>]
AzureTasks ==
    [get_suggested_tasks |->
        Tasks(<<[ok |-> {"next", "over"}, on |-> "skip", rest |-> MaxPulls]>> \o WorkItems, 1,
              Block(1) \o Block(1) \o Block(1))]
AzureCallback == [handle_callback |-> <<Final>>]
AzureWebhooks == [register_webhook |-> One, delete_webhook |-> <<Refuses>>]
AzureAccount == [validate_token |-> <<Checks>>, get_authenticated_user |-> One]

\* An issue is made with a field that Issue does not have: whatever returns one
\* raises, after its request.
BitbucketRepositories ==
    [get_repos |-> One, get_repo |-> One, get_branches |-> <<Then, Asks>>]
BitbucketPulls == [op \in PullOps |-> One]
BitbucketIssues ==
    [get_issues |-> <<Unread>>, get_issue |-> <<Broken>>, create_issue |-> <<Broken>>,
     comment_on_issue |-> One]
BitbucketContent == [search_code |-> <<Unread>>, get_file_content |-> One]
BitbucketTasks == [get_suggested_tasks |-> Tasks(Block(1), 1, Block(1) \o Block(1) \o Block(1))]
BitbucketCallback == [handle_callback |-> <<Final>>]
BitbucketWebhooks == [register_webhook |-> One, delete_webhook |-> <<Refuses>>]
BitbucketAccount == [validate_token |-> <<Checks>>, get_authenticated_user |-> One]

ForgejoRepositories ==
    [get_repos |-> One, get_repo |-> One, get_branches |-> <<Then, Asks>>]
ForgejoPulls == [op \in PullOps |-> One]
ForgejoIssues == [op \in IssueOps |-> One]
ForgejoContent == [search_code |-> <<Unread>>, get_file_content |-> <<Entry>>]
ForgejoTasks == [get_suggested_tasks |-> Tasks(Block(1), 1, Block(1) \o Block(1))]
ForgejoCallback == [handle_callback |-> <<Final>>]
ForgejoWebhooks == [register_webhook |-> One, delete_webhook |-> <<Refuses>>]
ForgejoAccount == [validate_token |-> <<Checks>>, get_authenticated_user |-> One]

\* With a library an operation first gets the repository, and the issue or the
\* hook, that it works on.
GithubLibrary ==
    [op \in PacedOps \cup UnpacedOps |->
        CASE op \in {"get_repo", "get_authenticated_user"} -> One
          [] op = "get_repos" -> <<Perhaps, Asks>>
          [] op = "search_code" -> <<Unread>>
          [] op = "get_issue" -> <<Then, Unread>>
          [] op = "get_file_content" -> <<Then, Entry>>
          [] op \in {"comment_on_issue", "delete_webhook"} -> <<Then, Then, Asks>>
          [] op = "get_suggested_tasks" -> Tasks(Block(2), 2, Block(3) \o Block(3))
          [] op = "handle_callback" -> <<SignsIn>>
          [] op = "validate_token" -> <<Checks>>
          [] OTHER -> <<Then, Asks>>]

\* The user of python-gitlab is an attribute, which asks nothing.
GitlabLibrary ==
    [op \in (PacedOps \ UserOps) \cup {"handle_callback"} |->
        CASE op = "get_repo" -> One
          [] op = "get_repos" -> <<Perhaps, Asks>>
          [] op = "search_code" -> <<Unread>>
          [] op = "comment_on_issue" -> <<Then, Then, Asks>>
          [] op = "get_suggested_tasks" -> Tasks(Block(2), 2, Block(1) \o Block(1) \o Block(1))
          [] op = "handle_callback" -> <<SignsIn>>
          [] OTHER -> <<Then, Asks>>]

\* The parts of a service together.
Together(parts) ==
    [op \in UNION {DOMAIN f : f \in parts} |-> (CHOOSE f \in parts : op \in DOMAIN f)[op]]

\* The same reading of errors for every operation.
Always(errors) == [op \in PacedOps \cup UnpacedOps |-> errors]

\* The services over REST, and those with their library: what each asks, and how it
\* reads an answer.
Rest == {"github", "gitlab", "azure_devops", "bitbucket", "forgejo"}
Library == {"PyGithub", "python-gitlab"}

Plans ==
    [s \in Rest \cup Library |->
        CASE s = "github" ->
               Together({GithubRepositories, GithubPulls, GithubIssues, GithubContent, GithubTasks,
                         GithubCallback, GithubWebhooks, GithubAccount})
          [] s = "gitlab" ->
               Together({GitlabRepositories, GitlabPulls, GitlabIssues, GitlabContent, GitlabTasks,
                         GitlabCallback, GitlabWebhooks, GitlabAccount})
          [] s = "azure_devops" ->
               Together({AzureRepositories, AzurePulls, AzureIssues, AzureContent, AzureTasks,
                         AzureCallback, AzureWebhooks, AzureAccount})
          [] s = "bitbucket" ->
               Together({BitbucketRepositories, BitbucketPulls, BitbucketIssues, BitbucketContent,
                         BitbucketTasks, BitbucketCallback, BitbucketWebhooks, BitbucketAccount})
          [] s = "forgejo" ->
               Together({ForgejoRepositories, ForgejoPulls, ForgejoIssues, ForgejoContent,
                         ForgejoTasks, ForgejoCallback, ForgejoWebhooks, ForgejoAccount})
          [] s = "PyGithub" -> GithubLibrary
          [] s = "python-gitlab" -> GitlabLibrary]

Reads ==
    [s \in Rest \cup Library |->
        CASE s = "github" -> Always(GithubRest)
          [] s = "gitlab" -> Always(GitlabRest)
          [] s = "azure_devops" -> Always(AzureRest)
          [] s = "bitbucket" -> [Always(BitbucketRest) EXCEPT !.get_file_content = BitbucketFile]
          [] s = "forgejo" -> Always(ForgejoRest)
          [] s = "PyGithub" -> GithubClient
          [] s = "python-gitlab" -> GitlabClient]

-----------------------------------------------------------------------------
CONSTANTS Call, MinInterval,
          Services,        \* members of Rest and Library
          OpsOf            \* [Call -> the operations a call may be]

VARIABLES op, service,     \* what is called, and on what kind of service
          pc, at,          \* where the call is; the request of its plan
          wait,            \* the ticks a sleep has still to last
          owner,           \* _lock
          since,           \* ticks since _last_request_at
          gap,             \* ticks since a paced operation last started its requests
          token, used,     \* auth_info.token; the tokens each call's requests carried
          made,            \* how often each call's mutation was made at the provider
          result

gitVars == <<op, service, pc, at, wait, owner, since, gap, token, used, made, result>>

None == "none"

ASSUME ProviderAssumption == MinInterval \in Nat /\ None \notin Call
ASSUME ServicesAssumption == Services \subseteq Rest \cup Library

Plan(c) == Plans[service][op[c]]
Capped(n) == IF n < MinInterval THEN n ELSE MinInterval

GitInit ==
    /\ service \in Services
    /\ op \in {f \in [Call -> PacedOps \cup UnpacedOps] :
                   \A c \in Call : f[c] \in OpsOf[c] \cap DOMAIN Plans[service]}
    /\ pc = [c \in Call |-> "idle"]
    /\ at = [c \in Call |-> 1]
    /\ wait = [c \in Call |-> 0]
    /\ owner = None
    /\ since = MinInterval /\ gap = MinInterval
    /\ token = 0
    /\ used = [c \in Call |-> {}]
    /\ made = [c \in Call |-> 0]
    /\ result = [c \in Call |-> None]

-----------------------------------------------------------------------------
\* A tick of the clock.
Tick ==
    /\ since' = Capped(since + 1) /\ gap' = Capped(gap + 1)
    /\ wait' = [c \in Call |-> IF wait[c] > 0 THEN wait[c] - 1 ELSE 0]
    /\ UNCHANGED <<op, service, pc, at, owner, token, used, made, result>>

\* A thread calls the operation, or the loop starts its asynchronous form,
\* which sleeps first when the operation is paced: lines 159-166.
CallSync(c) ==
    /\ pc[c] = "idle"
    /\ pc' = [pc EXCEPT ![c] = "locking"]
    /\ UNCHANGED <<op, service, at, wait, owner, since, gap, token, used, made, result>>

CallAsync(c) ==
    /\ pc[c] = "idle"
    /\ op[c] \in PacedOps
    /\ pc' = [pc EXCEPT ![c] = "pacing"]
    /\ wait' = [wait EXCEPT ![c] = MinInterval - since]
    /\ UNCHANGED <<op, service, at, owner, since, gap, token, used, made, result>>

\* The sleep is over: _last_request_at is set and a thread is asked for.
Paced(c) ==
    /\ pc[c] = "pacing"
    /\ wait[c] = 0
    /\ since' = 0
    /\ pc' = [pc EXCEPT ![c] = "locking"]
    /\ UNCHANGED <<op, service, at, wait, owner, gap, token, used, made, result>>

\* The caller is cancelled in its sleep.  Later it can only stop listening.
Cancelled(c) ==
    /\ pc[c] = "pacing"
    /\ pc' = [pc EXCEPT ![c] = "done"]
    /\ result' = [result EXCEPT ![c] = "cancelled"]
    /\ UNCHANGED <<op, service, at, wait, owner, since, gap, token, used, made>>

\* A mutant of Enters: the operation runs without the lock.
EntersUnlocked(c) ==
    /\ pc[c] = "locking"
    /\ owner' = c
    /\ pc' = [pc EXCEPT ![c] = IF op[c] \in PacedOps THEN "spacing" ELSE "request"]
    /\ wait' = [wait EXCEPT ![c] = IF op[c] \in PacedOps THEN MinInterval - since ELSE 0]
    /\ UNCHANGED <<op, service, at, since, gap, token, used, made, result>>

\* The lock is taken, and the elapsed time read under it: lines 150-156.
Enters(c) ==
    /\ pc[c] = "locking"
    /\ owner = None
    /\ owner' = c
    /\ pc' = [pc EXCEPT ![c] = IF op[c] \in PacedOps THEN "spacing" ELSE "request"]
    /\ wait' = [wait EXCEPT ![c] = IF op[c] \in PacedOps THEN MinInterval - since ELSE 0]
    /\ UNCHANGED <<op, service, at, since, gap, token, used, made, result>>

\* Line 157, and the first request is on its way.
Starts(c) ==
    /\ pc[c] = "spacing"
    /\ wait[c] = 0
    /\ since' = 0 /\ gap' = 0
    /\ pc' = [pc EXCEPT ![c] = "request"]
    /\ UNCHANGED <<op, service, at, wait, owner, token, used, made, result>>

\* What the operation may do when its current request ends with kind k: go on, or
\* return a result.
Outcomes(c, k) ==
    LET p == Plan(c)[at[c]]
    IN CASE k = "ok" -> p.ok
         [] k # "ok" /\ p.on = "raise" -> {k}
         [] k # "ok" /\ p.on = "else" -> IF k = "fatal" THEN {"next", "fatal"} ELSE {k}
         [] k # "ok" /\ p.on = "skip" -> {"over"}
         [] k # "ok" /\ p.on = "end" -> {"ok"}
         [] k # "ok" /\ p.on = "false" -> {IF k = "fatal" THEN "false" ELSE k}
         [] k # "ok" /\ p.on = "never" -> {"false"}
         [] k # "ok" /\ p.on = "fatal" -> {"fatal"}

\* A request ends.  A mutation is made when the provider says so and may have been
\* made when its answer did not come or could not be read.  The lock is
\* released however the operation ends; handle_callback() leaves a new token.
Answered(c, a) ==
    /\ pc[c] = "request"
    /\ used' = [used EXCEPT ![c] = IF op[c] = "handle_callback" THEN @ ELSE @ \cup {token}]
    /\ \E m \in CASE op[c] \notin Mutating \/ at[c] < Len(Plan(c)) \/ a \in {"limited", "client"} -> {0}
                  [] op[c] \in Mutating /\ at[c] = Len(Plan(c)) /\ a = "ok" -> {1}
                  [] OTHER -> {0, 1} :
           made' = [made EXCEPT ![c] = @ + m]
    /\ \E r \in Outcomes(c, Reads[service][op[c]][a]) :
         LET to == at[c] + 1 + (IF r = "over" THEN Plan(c)[at[c]].rest ELSE 0)
             goesOn == r \in {"next", "over"} /\ to <= Len(Plan(c))
         IN /\ token' = IF op[c] = "handle_callback" /\ r = "ok" THEN token + 1 ELSE token
            /\ IF goesOn
               THEN /\ at' = [at EXCEPT ![c] = to]
                    /\ UNCHANGED <<pc, owner, result>>
               ELSE /\ pc' = [pc EXCEPT ![c] = "done"]
                    /\ owner' = None
                    /\ result' = [result EXCEPT ![c] = IF r \in {"next", "over"} THEN "ok" ELSE r]
                    /\ UNCHANGED at
    /\ UNCHANGED <<op, service, wait, since, gap>>

Step(c) == Paced(c) \/ Enters(c) \/ Starts(c) \/ \E a \in Answer : Answered(c, a)

GitNext ==
    \/ Tick
    \/ \E c \in Call : CallSync(c) \/ CallAsync(c) \/ Cancelled(c) \/ Step(c)

GitSpec == GitInit /\ [][GitNext]_gitVars

-----------------------------------------------------------------------------
\* However synchronous and asynchronous callers are mixed, two paced operations
\* start their requests at least the minimal interval apart.
RequestsPaced ==
    [][\A c \in Call : pc[c] = "spacing" /\ pc'[c] = "request" => gap = MinInterval]_gitVars

\* The requests of one operation carry one token: a sign-in that completes
\* meanwhile is not seen half way.
OneTokenPerCall == \A c \in Call : Cardinality(used[c]) <= 1

\* What a mutation reports agrees with what became of it: reported as done, it was
\* made; no call makes it twice; refused by the REST interface as final, or
\* answered with False, it was not made.
ReportsAgree ==
    \A c \in Call : op[c] \in Mutating =>
        /\ made[c] <= 1
        /\ result[c] = "ok" => made[c] = 1
        /\ result[c] \in {"fatal", "false"} /\ service \in Rest => made[c] = 0

================================================================================

-------------------------------- MODULE Trackers --------------------------------
(***************************************************************************)
(* The clients of Jira, Linear and Slack in app/integrations: what an      *)
(* operation reports of a request that the service has applied or not,     *)
(* over each HTTP library, whose answers the three read differently.       *)
(*                                                                         *)
(* The services are external.  A response has a status and a body: the     *)
(* result asked for, a result that says it was not successful, a report    *)
(* of errors, JSON of some other shape, or a text, which may also come     *)
(* from a gateway after the request was applied.                           *)
(***************************************************************************)
EXTENDS Naturals

CONSTANTS MaxCalls         \* bound: operations of one process

VARIABLES http,            \* the library that could be imported
          credentials,     \* the trackers that a token is at hand for
          last,            \* the operation made last: its name, its report, its request's fate
          made             \* MaxCalls spent

trackerVars == <<http, credentials, last, made>>

Tracker == {"jira", "linear", "slack"}

TrackersInit ==
    /\ http \in {"aiohttp", "urllib", "none"}
    /\ credentials \in SUBSET Tracker
    /\ last = [op |-> <<"none", "none">>, report |-> "none", applied |-> FALSE] /\ made = 0

-----------------------------------------------------------------------------
Response ==
    {r \in [status : {"ok", "empty", "refused", "lost"},
            body : {"result", "unsuccessful", "errors", "other", "text"}, applied : BOOLEAN] :
        /\ r.body = "result" => r.status # "refused"
        /\ r.status = "ok" /\ r.body \notin {"unsuccessful", "errors"} => r.applied
        /\ r.status = "empty" => r.body = "result" /\ r.applied
        /\ r.body \in {"unsuccessful", "errors"} => ~r.applied
        /\ r.status = "lost" => r.body = "text"}

\* What a service may answer: 204 is Jira's, which reports errors only with their status;
\* a request without credentials is refused,
\* and without a library there is no request.
Responses(t) ==
    {r \in Response :
        /\ r.status = "empty" => t = "jira"
        /\ r.body = "unsuccessful" => t # "jira"
        /\ r.body = "errors" /\ t = "jira" => r.status = "refused"
        /\ t \notin credentials => r.status = "refused" /\ ~r.applied
        /\ http = "none" => r.status = "lost" /\ ~r.applied}

\* urllib raises for a status of error, aiohttp does not.
Unread(r) == r.status = "lost" \/ (http = "urllib" /\ r.status = "refused")

\* _http_get(), and _http_post_json() and _http_put(), of Jira.
JiraRead(r) ==
    CASE Unread(r) -> "raises"
      [] r.status = "empty" -> "null"
      [] r.body = "text" -> "raises"
      [] OTHER -> r.body
JiraSent(r) ==
    IF http = "aiohttp" /\ r.status # "lost" /\ r.body = "text" THEN "null" ELSE JiraRead(r)

\* _http_post_json() and _http_post_form() of Linear.
LinearAnswer(r) == IF Unread(r) \/ r.body = "text" THEN "raises" ELSE r.body

\* A mutant of LinearData: errors beside the data are not looked at.
LinearDataOnly(r) == LET d == LinearAnswer(r) IN IF d = "errors" THEN "result" ELSE d

\* _graphql_request(): a report of errors is raised.
LinearData(r) == LET d == LinearAnswer(r) IN IF d = "errors" THEN "raises" ELSE d

\* _api_post() of Slack answers {"ok": False} for what it cannot read, but not when
\* aiohttp gets no response at all.
SlackAnswer(r) ==
    CASE r.status = "lost" /\ http = "aiohttp" -> "raises"
      [] Unread(r) \/ r.body = "text" -> "unsuccessful"
      [] OTHER -> r.body

-----------------------------------------------------------------------------
Ends(op, report, r) ==
    /\ made < MaxCalls /\ made' = made + 1
    /\ last' = [op |-> op, report |-> report, applied |-> r.applied]
    /\ UNCHANGED http

\* What the helper that makes the request returns for a response.
Decoded(helper, r) ==
    CASE helper = "_http_get" -> JiraRead(r)
      [] helper = "_http_post_json" -> JiraSent(r)
      [] helper = "_http_post_form" -> LinearAnswer(r)
      [] helper = "_graphql_request" -> LinearData(r)

\* A value read, or nothing for whatever else was answered.
Found(d) ==
    CASE d = "raises" -> "raised" [] d = "result" -> "found" [] OTHER -> "nothing"

Reads(t, name, helper) ==
    /\ \E r \in Responses(t) : Ends(<<t, name>>, Found(Decoded(helper, r)), r)
    /\ UNCHANGED credentials

\* exchange_code() keeps the token it is given and raises for every other answer.
Exchanges(t, helper) ==
    /\ \E r \in Responses(t) \cup {q \in Response : q.status # "lost" /\ http # "none"} :
          LET granted == Decoded(helper, r) = "result" IN
          /\ Ends(<<t, "exchange_code">>, IF granted THEN "made" ELSE "raised", r)
          /\ credentials' = credentials \cup (IF granted THEN {t} ELSE {})

JiraExchangeCode == Exchanges("jira", "_http_post_json")
JiraListProjects == Reads("jira", "list_projects", "_http_get")
JiraGetIssue == Reads("jira", "get_issue", "_http_get")
JiraSearch == Reads("jira", "search", "_http_post_json")
JiraListComments == Reads("jira", "list_comments", "_http_get")
JiraGetTransitions == Reads("jira", "get_transitions", "_http_get")
JiraSuggestedTasks == Reads("jira", "get_suggested_tasks", "_http_post_json")

\* An object that reports errors becomes an issue without a key.
JiraCreateIssue ==
    /\ \E r \in Responses("jira") :
          LET d == JiraSent(r) IN
          Ends(<<"jira", "create_issue">>,
               CASE d = "result" -> "made" [] d = "errors" -> "blank" [] OTHER -> "raised", r)
    /\ UNCHANGED credentials

\* Whatever is answered becomes a comment, perhaps without an id.
JiraCreateComment ==
    /\ \E r \in Responses("jira") :
          LET d == JiraSent(r) IN
          Ends(<<"jira", "create_comment">>,
               CASE d = "result" -> "made" [] d = "raises" -> "raised" [] OTHER -> "blank", r)
    /\ UNCHANGED credentials

\* True unless the request raises.
JiraTransitionIssue ==
    /\ \E r \in Responses("jira") :
          Ends(<<"jira", "transition_issue">>,
               IF JiraSent(r) = "raises" THEN "raised" ELSE "made", r)
    /\ UNCHANGED credentials

\* The answer to the PUT is dropped, then the issue is read, or made up from its key.
JiraUpdateIssue ==
    /\ \E put, get \in Responses("jira") :
          Ends(<<"jira", "update_issue">>,
               IF "raises" \in {JiraSent(put), JiraRead(get)} THEN "raised" ELSE "made", put)
    /\ UNCHANGED credentials

LinearExchangeCode == Exchanges("linear", "_http_post_form")
LinearListTeams == Reads("linear", "list_teams", "_graphql_request")
LinearListIssues == Reads("linear", "list_issues", "_graphql_request")
LinearGetIssue == Reads("linear", "get_issue", "_graphql_request")
LinearListComments == Reads("linear", "list_comments", "_graphql_request")
LinearSuggestedTasks == Reads("linear", "get_suggested_tasks", "_graphql_request")

\* A mutation has to say that it was successful.
Mutates(name) ==
    /\ \E r \in Responses("linear") :
          Ends(<<"linear", name>>, IF LinearData(r) = "result" THEN "made" ELSE "raised", r)
    /\ UNCHANGED credentials

LinearCreateIssue == Mutates("create_issue")
LinearUpdateIssue == Mutates("update_issue")
LinearCreateComment == Mutates("create_comment")

\* Without a bot token nothing is sent; the caller is handed Slack's answer.
Posts(name) ==
    /\ IF "slack" \notin credentials
       THEN Ends(<<"slack", name>>, "refused", [applied |-> FALSE])
       ELSE \E r \in Responses("slack") :
              LET d == SlackAnswer(r) IN
              Ends(<<"slack", name>>,
                   CASE d = "result" -> "made" [] d = "raises" -> "raised" [] OTHER -> "refused",
                   r)
    /\ UNCHANGED credentials

SlackSendMessage == Posts("send_message")
SlackSendEphemeral == Posts("send_ephemeral")
SlackUpdateMessage == Posts("update_message")
SlackUploadFile == Posts("upload_file")
SlackInteractiveResolve == Posts("send_interactive_resolve")
SlackResolutionStatus == Posts("send_resolution_status")

TrackersNext ==
    \/ JiraExchangeCode \/ JiraListProjects \/ JiraGetIssue \/ JiraSearch \/ JiraListComments
    \/ JiraGetTransitions \/ JiraSuggestedTasks \/ JiraCreateIssue \/ JiraCreateComment
    \/ JiraTransitionIssue \/ JiraUpdateIssue
    \/ LinearExchangeCode \/ LinearListTeams \/ LinearListIssues \/ LinearGetIssue
    \/ LinearListComments \/ LinearSuggestedTasks \/ LinearCreateIssue \/ LinearUpdateIssue
    \/ LinearCreateComment
    \/ SlackSendMessage \/ SlackSendEphemeral \/ SlackUpdateMessage \/ SlackUploadFile
    \/ SlackInteractiveResolve \/ SlackResolutionStatus

-----------------------------------------------------------------------------
\* The two operations of Jira that look at no answer, over the library that raises for none.
Trusting == http = "aiohttp" /\ last.op \in {<<"jira", "transition_issue">>, <<"jira", "update_issue">>}

\* An operation reported as made was applied by the service and had credentials, perhaps
\* from an exchange before it, whichever library carried it; but for those two.
ReportedIsApplied ==
    last.report = "made" /\ last.op[2] # "exchange_code" =>
        Trusting \/ (last.applied /\ last.op[1] \in credentials)
================================================================================

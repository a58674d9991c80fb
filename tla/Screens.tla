------------------------------ MODULE Screens -------------------------------
(***************************************************************************)
(* What a browser holds of the server's rows (frontend/lib/api/hooks.ts,   *)
(* frontend/app/providers.tsx): every list a page shows is a query under a *)
(* key, every write is a mutation that tells the queries whose keys start  *)
(* with a given one to fetch again.                                        *)
(*                                                                         *)
(* A behaviour follows one mutation and one query that shows something the *)
(* mutation changes.  A key's parameters (a job, a status, a vendor) are   *)
(* the ones of the rows that change.  The founder's strip, which the       *)
(* server answers from a cache of its own, is in Reports.                  *)
(***************************************************************************)
EXTENDS Naturals, SequencesExt

CONSTANT MaxWrites \* bound on the writes to the rows the query shows

Screen(key, shows) == [key |-> key, shows |-> shows]
Hook(name, changes, told) == [name |-> name, changes |-> changes, told |-> told]

\* The client's portal.
ClientScreens == {
  Screen(<<"client", "overview">>, {"jobs", "applications", "interviews", "offers made"}),
  Screen(<<"client", "jobs">>, {"jobs", "owners"}),
  Screen(<<"client", "pipeline">>, {"applications", "owners"}),
  Screen(<<"client", "submissions">>, {"submissions", "applications"}),
  Screen(<<"client", "interviews">>, {"interviews"}),
  Screen(<<"client", "offers">>, {"offers", "offers made"}),
  Screen(<<"client", "team">>, {"team"})}
ClientHooks == {
  Hook("ClientSubmissionFeedback", {"submissions"}, {<<"client", "submissions">>}),
  Hook("ClientPostJob", {"jobs"}, {<<"client", "jobs">>, <<"client", "overview">>}),
  Hook("ClientReleaseOffer", {"offers"}, {<<"client", "offers">>}),
  Hook("ClientSetJoiningDate", {"offers"}, {<<"client", "offers">>}),
  Hook("ClientAddTeammate", {"team"}, {<<"client", "team">>}),
  Hook("ClientReassignJob", {"owners"}, {<<"client", "jobs">>, <<"client", "pipeline">>})}

\* The privacy page and the candidate's own pages.
CandidateScreens == {
  Screen(<<"candidate", "overview">>, {"candidate"}),
  Screen(<<"me", "applications">>, {"candidate"}),
  Screen(<<"privacy", "consent">>, {"consents"}),
  Screen(<<"privacy", "requests">>, {"requests"})}
CandidateHooks == {
  Hook("SetConsent", {"consents"}, {<<"privacy", "consent">>}),
  Hook("ExportData", {"requests"}, {<<"privacy", "requests">>}),
  Hook("RequestErasure", {"requests", "candidate"}, {<<"privacy", "requests">>})}

\* The registrations a client asks for, and the administrator's lists.
AdminScreens == {
  Screen(<<"admin", "client-registrations", "pending">>, {"registrations"}),
  Screen(<<"admin", "clients", 0>>, {"clients"}),
  Screen(<<"admin", "jobs", 0>>, {"jobs"}),
  Screen(<<"admin", "audit", 0>>, {"audit"})}
AdminHooks == {
  Hook("ApproveClient", {"registrations", "clients"}, {<<"admin", "client-registrations">>}),
  Hook("RejectClient", {"registrations"}, {<<"admin", "client-registrations">>})}

\* Submissions, offers, interviews, invoices and vendors.
WorkflowScreens == {
  Screen(<<"submissions">>, {"submissions"}),
  Screen(<<"offers">>, {"offers"}),
  Screen(<<"interviews">>, {"interviews"}),
  Screen(<<"invoices">>, {"invoices"}),
  Screen(<<"vendors">>, {"vendors"}),
  Screen(<<"vendor-submissions">>, {"vendor submissions"})}
WorkflowHooks == {
  Hook("CreateSubmission", {"submissions", "timeline"}, {<<"submissions">>}),
  Hook("UpdateSubmission", {"submissions"}, {<<"submissions">>}),
  Hook("CreateOffer", {"offers", "timeline"}, {<<"offers">>}),
  Hook("UpdateOffer", {"offers"}, {<<"offers">>}),
  Hook("CreateInterview", {"interviews", "timeline"}, {<<"interviews">>}),
  Hook("UpdateInterview", {"interviews", "timeline"}, {<<"interviews">>}),
  Hook("CreateInvoice", {"invoices"}, {<<"invoices">>}),
  Hook("UpdateInvoice", {"invoices"}, {<<"invoices">>}),
  Hook("CreateVendor", {"vendors"}, {<<"vendors">>}),
  Hook("UpdateVendor", {"vendors"}, {<<"vendors">>}),
  Hook("UpdateVendorSubmission", {"vendor submissions"}, {<<"vendor-submissions">>})}

\* The pipeline of a job, its side panel, the overviews and the tests.
PipelineScreens == {
  Screen(<<"employer", "overview">>, {"jobs", "applications"}),
  Screen(<<"employee", "overview">>, {"applications"}),
  Screen(<<"jobs">>, {"jobs"}),
  Screen(<<"pipeline", "job">>, {"applications"}),
  Screen(<<"candidate-timeline", "candidate">>, {"timeline"}),
  Screen(<<"tests", "all">>, {"tests"})}
PipelineHooks == {
  Hook("CreateJob", {"jobs"}, {<<"jobs">>, <<"employer", "overview">>}),
  Hook("TransitionStage", {"applications", "timeline"},
       {<<"pipeline", "job">>, <<"employer", "overview">>}),
  Hook("IssueTest", {"tests"}, {<<"tests">>}),
  Hook("WaiveTest", {"tests", "applications", "timeline"}, {<<"tests">>})}

\* Leads, and what a vendor earns.
DeskScreens == {
  Screen(<<"leads">>, {"leads"}),
  Screen(<<"lead-activities", "lead">>, {"activities"}),
  Screen(<<"vendor-contracts", "vendor">>, {"contracts"}),
  Screen(<<"vendor-rates", "vendor">>, {"rates"}),
  Screen(<<"vendor-commissions", "vendor">>, {"commissions"}),
  Screen(<<"vendor-scorecard", "vendor">>, {"commissions"}),
  Screen(<<"staff-clients">>, {"clients"})}
DeskHooks == {
  Hook("CreateLead", {"leads"}, {<<"leads">>}),
  Hook("LeadTransition", {"leads", "activities"}, {<<"leads">>}),
  Hook("LogActivity", {"activities"}, {<<"lead-activities", "lead">>}),
  Hook("ConvertLead", {"leads", "activities", "clients", "jobs"}, {<<"leads">>}),
  Hook("CreateVendorContract", {"contracts"}, {<<"vendor-contracts", "vendor">>}),
  Hook("SetVendorClientRate", {"rates"}, {<<"vendor-rates", "vendor">>}),
  Hook("VoidCommission", {"commissions"}, {<<"vendor-commissions">>}),
  Hook("MarkCommissionPaid", {"commissions"}, {<<"vendor-commissions">>})}

StaffScreens == AdminScreens \cup WorkflowScreens \cup PipelineScreens \cup DeskScreens
StaffHooks == AdminHooks \cup WorkflowHooks \cup PipelineHooks \cup DeskHooks

\* A browser has the screens and the mutations of one kind of session.
Sessions == {<<ClientHooks, ClientScreens>>, <<CandidateHooks, CandidateScreens>>,
             <<StaffHooks, StaffScreens>>}

\* Fault: a key names only the query that has it.
ExactKey(h, q) == q.key \in h.told

\* invalidateQueries matches the queries whose key starts with the one given.
Told(h, q) == \E key \in h.told : IsPrefix(key, q.key)

\* What a mutation changes and no onSuccess mentions.
Untold ==
  {<<h.name, <<"candidate-timeline", "candidate">>>> : h \in StaffHooks} \cup
  {<<h.name, <<"admin", "audit", 0>>>> : h \in StaffHooks} \cup
  {<<"RequestErasure", <<"candidate", "overview">>>>, <<"RequestErasure", <<"me", "applications">>>>,
   <<"CreateJob", <<"admin", "jobs", 0>>>>, <<"TransitionStage", <<"employee", "overview">>>>,
   <<"WaiveTest", <<"pipeline", "job">>>>, <<"WaiveTest", <<"employer", "overview">>>>,
   <<"WaiveTest", <<"employee", "overview">>>>,
   <<"LeadTransition", <<"lead-activities", "lead">>>>,
   <<"ConvertLead", <<"lead-activities", "lead">>>>, <<"ConvertLead", <<"staff-clients">>>>,
   <<"ConvertLead", <<"admin", "clients", 0>>>>, <<"ConvertLead", <<"jobs">>>>,
   <<"ConvertLead", <<"admin", "jobs", 0>>>>, <<"ConvertLead", <<"employer", "overview">>>>,
   <<"ApproveClient", <<"admin", "clients", 0>>>>, <<"ApproveClient", <<"staff-clients">>>>,
   <<"VoidCommission", <<"vendor-scorecard", "vendor">>>>,
   <<"MarkCommissionPaid", <<"vendor-scorecard", "vendor">>>>}

-----------------------------------------------------------------------------

VARIABLES
  hook,    \* the mutation that is followed
  query,   \* the query that is followed
  truth,   \* writes so far to the rows the query shows
  cache,   \* what the browser holds of them
  mounted, \* a page that shows the query is open
  fetch,   \* the query's request on the wire
  call,    \* the mutation's request on the wire
  owed,    \* the last write the page was told had succeeded (history)
  failed,  \* the last fetch failed (history)
  passed   \* a fetch the mutation overtook was left to finish (history)

vars == <<hook, query, truth, cache, mounted, fetch, call, owed, failed, passed>>

Empty == [held |-> FALSE, seen |-> 0, invalid |-> FALSE, old |-> FALSE]
Quiet == [at |-> "none"]
Asked == [at |-> "asked"]

Init == /\ \E s \in Sessions : hook \in s[1] /\ query \in s[2]
        /\ (hook.changes \cup {"audit"}) \cap query.shows # {}
        /\ truth = 0 /\ owed = 0
        /\ cache = Empty
        /\ mounted = FALSE
        /\ fetch = Quiet /\ call = Quiet
        /\ failed = FALSE /\ passed = FALSE

\* staleTime: a page that opens fetches what is missing, invalidated or a
\* minute old, unless it is being fetched.
Mount == /\ ~mounted
         /\ mounted' = TRUE
         /\ fetch' = IF fetch = Quiet /\ (~cache.held \/ cache.invalid \/ cache.old)
                     THEN Asked ELSE fetch
         /\ passed' = (passed /\ fetch' = fetch)
         /\ UNCHANGED <<hook, query, truth, cache, call, owed, failed>>

Unmount == /\ mounted
           /\ mounted' = FALSE
           /\ UNCHANGED <<hook, query, truth, cache, fetch, call, owed, failed, passed>>

Age == /\ cache.held /\ ~cache.old
       /\ cache' = [cache EXCEPT !.old = TRUE]
       /\ UNCHANGED <<hook, query, truth, mounted, fetch, call, owed, failed, passed>>

\* What no page shows is dropped in the end.
Collect == /\ ~mounted /\ fetch = Quiet /\ cache.held
           /\ cache' = Empty
           /\ UNCHANGED <<hook, query, truth, mounted, fetch, call, owed, failed, passed>>

ServeFetch == /\ fetch = Asked
              /\ fetch' = [at |-> "served", seen |-> truth]
              /\ UNCHANGED <<hook, query, truth, cache, mounted, call, owed, failed, passed>>

\* An answer makes the query valid again, whatever was said meanwhile.
OnFetched == /\ fetch.at = "served"
             /\ cache' = [held |-> TRUE, seen |-> fetch.seen, invalid |-> FALSE, old |-> FALSE]
             /\ fetch' = Quiet
             /\ failed' = FALSE
             /\ UNCHANGED <<hook, query, truth, mounted, call, owed, passed>>

\* retry: false
FailFetch == /\ fetch # Quiet
             /\ fetch' = Quiet
             /\ failed' = TRUE
             /\ UNCHANGED <<hook, query, truth, cache, mounted, call, owed, passed>>

-----------------------------------------------------------------------------

Written == truth < MaxWrites /\ truth' = truth + 1

\* A colleague, in another browser.
Elsewhere == /\ Written
             /\ UNCHANGED <<hook, query, cache, mounted, fetch, call, owed, failed, passed>>

Mutate == /\ call = Quiet
          /\ call' = Asked
          /\ UNCHANGED <<hook, query, truth, cache, mounted, fetch, owed, failed, passed>>

ServeCall == /\ call = Asked
             /\ Written
             /\ call' = [at |-> "served", seen |-> truth']
             /\ UNCHANGED <<hook, query, cache, mounted, fetch, owed, failed, passed>>

\* A query some page shows is fetched again: a fetch under way gives way to
\* the new one, unless it is the query's first.  The others are only marked.
Refetch == /\ cache' = [cache EXCEPT !.invalid = @ \/ cache.held]
           /\ IF mounted /\ (cache.held \/ fetch = Quiet)
              THEN fetch' = Asked /\ passed' = FALSE
              ELSE fetch' = fetch /\ passed' = (passed \/ fetch # Quiet)

OnSuccess == /\ call.at = "served"
             /\ owed' = call.seen
             /\ call' = Quiet
             /\ IF Told(hook, query) THEN Refetch ELSE UNCHANGED <<cache, fetch, passed>>
             /\ UNCHANGED <<hook, query, truth, mounted, failed>>

\* Refused, or the answer is lost.  Only a stage move tells its queries then.
OnError == /\ call # Quiet
           /\ call' = Quiet
           /\ IF hook.name = "TransitionStage" /\ Told(hook, query)
              THEN Refetch ELSE UNCHANGED <<cache, fetch, passed>>
           /\ UNCHANGED <<hook, query, truth, mounted, owed, failed>>

Next == \/ Mount \/ Unmount \/ Age \/ Collect
        \/ ServeFetch \/ OnFetched \/ FailFetch
        \/ Elsewhere \/ Mutate \/ ServeCall \/ OnSuccess \/ OnError

Spec == Init /\ [][Next]_vars

-----------------------------------------------------------------------------

ScreensTypeOK ==
  /\ truth \in 0 .. MaxWrites /\ owed \in 0 .. truth
  /\ cache \in [held : BOOLEAN, seen : 0 .. truth, invalid : BOOLEAN, old : BOOLEAN]
  /\ fetch.at \in {"none", "asked", "served"} /\ call.at \in {"none", "asked", "served"}

(* hooks.ts, the onSuccess and onSettled of every mutation: a page that is *)
(* open and has come to rest shows every write its own browser was told    *)
(* had succeeded, on each list the write changes, in whatever order        *)
(* answers arrive and pages are left and opened.  It may miss one only on  *)
(* the lists of Untold, after a fetch that failed, or by an answer that    *)
(* was on its way when the list's first fetch, or a list no page showed,   *)
(* was overtaken.                                                          *)
OwnWritesShown ==
  (mounted /\ fetch = Quiet /\ ~failed /\ ~passed) =>
    (cache.seen >= owed \/ <<hook.name, query.key>> \in Untold)

(* What is always true of a browser's lists.                               *)
ScreensKept == ScreensTypeOK /\ OwnWritesShown

-----------------------------------------------------------------------------
(* What the code says of its hooks and does not keep.                      *)

(* hooks.ts:204, 214, 223, 394, "refreshes ...": a mutation that succeeded *)
(* is shown on the lists it names.                                         *)
RefreshesItsLists ==
  (mounted /\ fetch = Quiet /\ ~failed /\ Told(hook, query)) => cache.seen >= owed

=============================================================================

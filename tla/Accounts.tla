------------------------------- MODULE Accounts -----------------------------
(***************************************************************************)
(* Accounts: sign-up, login, sign-in through Google with its single-use    *)
(* state (in Redis, or in the worker's memory when Redis fails), and the   *)
(* deletion of an account, as requests on several workers over one users   *)
(* table. An account is its email: the column is unique and deletion keeps *)
(* the row.                                                                *)
(***************************************************************************)
EXTENDS Naturals, FiniteSets

CONSTANTS
    Email, Worker, Nobody,
    Request,      \* requests
    State,        \* google_login requests, each with the state it makes
    Redirects,    \* does google_login answer? The code as it stands never does:
                  \* api.py uses urllib_parse without importing it
    Faults        \* may Redis, Google or a commit fail?

AccountsAssumption ==
    /\ Nobody \notin Request \cup State /\ Email # {}
    /\ Worker \cap {"none", "redis", "used"} = {}
    /\ Redirects \subseteq BOOLEAN /\ Faults \in BOOLEAN

VARIABLES
    users,     \* committed row of each email
    inserted,  \* the open transaction that has inserted an email's row
    states,    \* where each OAuth state is
    browser,   \* states a browser has been sent
    visit      \* the requests

accountVars == <<users, inserted, states, browser, visit>>

Outcomes == {"token", "taken", "refused", "error", "deleted"}
TypeOK ==
    /\ users \in [Email -> {"none", "live", "deleted"}]
    /\ inserted \in [Email -> Request \cup {Nobody}]
    /\ states \in [State -> {"none", "redis", "used"} \cup Worker]
    /\ browser \subseteq State
    /\ visit \in [Request ->
                    [pc : {"new", "take", "ask", "select", "insert", "commit", "reselect", "delete", "end"} \cup Outcomes,
                     kind : {"signup", "login", "google", "account"}, email : Email,
                     state : State \cup {Nobody}, made : BOOLEAN]]

Init ==
    /\ users = [e \in Email |-> "none"] /\ inserted = [e \in Email |-> Nobody]
    /\ states = [s \in State |-> "none"] /\ browser = {}
    /\ visit = [r \in Request |-> [pc |-> "new", kind |-> "login", email |-> CHOOSE e \in Email : TRUE,
                                   state |-> Nobody, made |-> FALSE]]

Goes(r, pc) == visit' = [visit EXCEPT ![r].pc = pc]

----------------------------------------------------------------------------
\* google_oauth_state_put and the redirect.
GoogleLogin(s) ==
    /\ states[s] = "none"
    /\ \E place \in {"redis"} \cup (IF Faults THEN Worker ELSE {}) : states' = [states EXCEPT ![s] = place]
    /\ browser' \in {IF answers THEN browser \cup {s} ELSE browser : answers \in Redirects}
    /\ UNCHANGED <<users, inserted, visit>>

\* The time to live of a state is over, or its worker restarts.
LoseState(s) ==
    /\ Faults /\ states[s] \notin {"none", "used"}
    /\ states' = [states EXCEPT ![s] = "used"]
    /\ UNCHANGED <<users, inserted, browser, visit>>

\* A request arrives: anyone may present a state the browser was sent, again
\* and on any worker.
Arrive(r) ==
    /\ visit[r].pc = "new"
    /\ \E k \in {"signup", "login", "google", "account"}, e \in Email :
         \E s \in (IF k = "google" THEN browser ELSE {Nobody}) :
           visit' = [visit EXCEPT ![r] = [@ EXCEPT !.kind = k, !.email = e, !.state = s,
                                            !.pc = IF k = "google" THEN "take" ELSE "select"]]
    /\ UNCHANGED <<users, inserted, states, browser>>

\* google_oauth_state_take: GETDEL, then the memory of this worker.
TakeState(r) ==
    /\ visit[r].pc = "take"
    /\ \/ /\ states[visit[r].state] \in {"redis"} \cup Worker
          /\ states' = [states EXCEPT ![visit[r].state] = "used"]
          /\ Goes(r, "ask")
       \/ (Faults \/ states[visit[r].state] # "redis") /\ Goes(r, "refused") /\ UNCHANGED states
    /\ UNCHANGED <<users, inserted, browser>>

\* google_exchange_code and google_verify_id_token.
AskGoogle(r) ==
    /\ visit[r].pc = "ask"
    /\ Goes(r, "select") \/ (Faults /\ Goes(r, "refused"))
    /\ UNCHANGED <<users, inserted, states, browser>>

----------------------------------------------------------------------------
\* The SELECT of a live account, whatever the request is about.
Select(r) ==
    /\ visit[r].pc = "select"
    /\ LET live == users[visit[r].email] = "live" IN
       \/ visit[r].kind = "signup"  /\ Goes(r, IF live THEN "taken" ELSE "insert")
       \/ visit[r].kind = "login"   /\ \E right \in BOOLEAN : Goes(r, IF live /\ right THEN "token" ELSE "refused")
       \/ visit[r].kind = "google"  /\ Goes(r, IF live THEN "token" ELSE "insert")
       \/ visit[r].kind = "account" /\ Goes(r, IF live THEN "delete" ELSE "refused")
    /\ UNCHANGED <<users, inserted, states, browser>>

\* INSERT waits for an open transaction that inserted the same email, and
\* finds the row of a deleted account in its way too.
\* Mutant: the index is not unique.
InsertAnyway(r) ==
    /\ visit[r].pc = "insert" /\ inserted[visit[r].email] = Nobody
    /\ inserted' = [inserted EXCEPT ![visit[r].email] = r] /\ Goes(r, "commit")
    /\ UNCHANGED <<users, states, browser>>
Insert(r) ==
    /\ visit[r].pc = "insert" /\ inserted[visit[r].email] = Nobody
    /\ IF users[visit[r].email] = "none"
       THEN inserted' = [inserted EXCEPT ![visit[r].email] = r] /\ Goes(r, "commit")
       ELSE UNCHANGED inserted /\ Goes(r, IF visit[r].kind = "google" THEN "reselect" ELSE "taken")
    /\ UNCHANGED <<users, states, browser>>

CommitInsert(r) ==
    /\ visit[r].pc = "commit"
    /\ inserted' = [inserted EXCEPT ![visit[r].email] = Nobody]
    /\ \/ /\ users' = [users EXCEPT ![visit[r].email] = "live"]
          /\ visit' = [visit EXCEPT ![r].pc = "token", ![r].made = TRUE]
       \/ Faults /\ UNCHANGED users /\ Goes(r, "error")
    /\ UNCHANGED <<states, browser>>

\* google_callback looks again after an IntegrityError.
\* Mutant: it goes on with the user it could not insert.
ReselectBlind(r) ==
    /\ visit[r].pc = "reselect"
    /\ Goes(r, "token")
    /\ UNCHANGED <<users, inserted, states, browser>>
Reselect(r) ==
    /\ visit[r].pc = "reselect"
    /\ Goes(r, IF users[visit[r].email] = "live" THEN "token" ELSE "error")
    /\ UNCHANGED <<users, inserted, states, browser>>

\* delete_account: the row is marked, get_db commits.
DeleteAccount(r) ==
    /\ visit[r].pc = "delete"
    /\ \/ users' = [users EXCEPT ![visit[r].email] = "deleted"] /\ Goes(r, "deleted")
       \/ Faults /\ UNCHANGED users /\ Goes(r, "error")
    /\ UNCHANGED <<inserted, states, browser>>

Next ==
    \/ \E s \in State : GoogleLogin(s) \/ LoseState(s)
    \/ \E r \in Request :
         \/ Arrive(r) \/ TakeState(r) \/ AskGoogle(r) \/ Select(r) \/ Insert(r)
         \/ CommitInsert(r) \/ Reselect(r) \/ DeleteAccount(r)
Spec == Init /\ [][Next]_accountVars

----------------------------------------------------------------------------
(* Properties.                                                             *)

\* However sign-ups and Google sign-ins of one email overlap, one of them
\* makes the account and no token names one that was never made; the others
\* are told the truth, that it exists (signup, google_callback).
Told(e, outcome) == \E r \in Request : visit[r].email = e /\ visit[r].pc = outcome
OneAccount ==
    \A e \in Email :
        /\ Cardinality({r \in Request : visit[r].email = e /\ visit[r].made}) <= 1
        /\ users[e] = "none" => ~Told(e, "token") /\ ~Told(e, "taken") /\ ~Told(e, "deleted")

\* A token is handed out for a live account only: one handed out after the
\* account's deletion had been read as live before it, and a deleted account
\* stays deleted whoever signs up with its email (get_current_user,
\* google_callback after an IntegrityError).
DeletedStays ==
    [][\A e \in Email : users[e] = "deleted" =>
         /\ users'[e] = "deleted"
         /\ \A r \in Request : visit[r].email = e /\ visit[r].pc # "token" => visit'[r].pc # "token"]_accountVars

\* A state lets one callback through, whether it was kept in Redis or in a
\* memory, while callbacks on several workers race for it
\* (google_oauth_state_take).
StateUsedOnce ==
    \A s \in State :
        Cardinality({r \in Request : visit[r].state = s /\ visit[r].pc \notin {"take", "refused"}}) <= 1
=============================================================================

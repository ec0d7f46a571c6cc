----------------------------- MODULE AiSettings -----------------------------
(***************************************************************************)
(* The AI settings (modules/ai, modules/settings and the settings page): a *)
(* document of profiles, default and routing in one file, the keys of the  *)
(* profiles in another, a cache of the two together, and the client of a   *)
(* task that was made from it. Requests of one process interleave at their *)
(* awaits; the process may crash between the two files.                    *)
(***************************************************************************)
EXTENDS Naturals, Sequences, FiniteSets, SequencesExt

CONSTANTS
    Profile,
    Builtin,      \* the profiles of the default document, in order
    Key,
    NoKey,
    None,
    Request,
    MaxCrashes

SettingsAssumption ==
    /\ Builtin \in Seq(Profile) /\ Builtin # <<>> /\ MaxCrashes \in Nat
    /\ NoKey \notin Key /\ None \notin Profile

VARIABLES
    file,       \* settings.json: the profiles, the default and a task's route
    secrets,    \* settings.secrets.json: the keys by profile
    cache,      \* _effective_settings_cache
    client,     \* the client of the task that is cached: profile and key
    req,        \* the requests
    crashes

settingsVars == <<file, secrets, cache, client, req, crashes>>

NoKeys == [p \in Profile |-> NoKey]
SettingsDoc(profiles, default, route, keys) ==
    [profiles |-> profiles, default |-> default, route |-> route, keys |-> keys]
DefaultDoc == SettingsDoc(Builtin, Builtin[1], None, NoKeys)

\* normalize_ai_settings: no profiles means those of the enabled providers,
\* no default means the first; a route to no profile is dropped. The keys
\* that are merged are those of profiles of the document.
Normalized(doc) ==
    LET profiles == IF doc.profiles = <<>> THEN Builtin ELSE doc.profiles IN
    SettingsDoc(profiles,
        IF doc.default = None THEN profiles[1] ELSE doc.default,
        IF doc.route \in Range(profiles) THEN doc.route ELSE None,
        [p \in Profile |-> IF p \in Range(profiles) THEN doc.keys[p] ELSE NoKey])
\* get_effective_settings_doc: the document with its keys.
Effective == Normalized([file EXCEPT !.keys = secrets])

\* resolve_profile_id_for_task
Routed(view) ==
    LET wanted == IF view.route # None THEN view.route ELSE view.default IN
    IF wanted \in Range(view.profiles) THEN {wanted} ELSE Range(view.profiles)

Idle == [pc |-> "new", op |-> "none", profile |-> None, key |-> NoKey, view |-> DefaultDoc, doc |-> DefaultDoc]

Init ==
    /\ file = DefaultDoc /\ secrets = NoKeys
    /\ cache = None /\ client = None
    /\ req = [r \in Request |-> Idle]
    /\ crashes = 0

-----------------------------------------------------------------------------
(* Reading: the cache if there is one, or the files, read in a thread.     *)

Ask(r, op, p, k) ==
    /\ req[r].pc = "new"
    /\ req' = [req EXCEPT ![r] = IF cache = None
           THEN [@ EXCEPT !.pc = "reading", !.op = op, !.profile = p, !.key = k]
           ELSE [@ EXCEPT !.pc = "decides", !.op = op, !.profile = p, !.key = k, !.view = cache]]
    /\ UNCHANGED <<file, secrets, cache, client, crashes>>
\* The page keeps what it has loaded; it is given no keys.
AskPage(r) ==
    /\ req[r].pc = "new"
    /\ req' = [req EXCEPT ![r] = [@ EXCEPT !.pc = "decides", !.op = "page",
                                           !.view = [Effective EXCEPT !.keys = NoKeys]]]
    /\ UNCHANGED <<file, secrets, cache, client, crashes>>
Read(r) ==
    /\ req[r].pc = "reading"
    /\ req' = [req EXCEPT ![r].pc = "filling", ![r].view = Effective]
    /\ UNCHANGED <<file, secrets, cache, client, crashes>>
Fill(r) ==
    /\ req[r].pc = "filling"
    /\ cache' = req[r].view
    /\ req' = [req EXCEPT ![r].pc = "decides"]
    /\ UNCHANGED <<file, secrets, client, crashes>>

-----------------------------------------------------------------------------
(* What is written is made from the profiles the request has seen.         *)

Save(r, doc) == req' = [req EXCEPT ![r].pc = "saving", ![r].doc = doc]
\* Whatever the request has in its hands is a decision of its own.
Decides(r, op) == req[r].pc = "decides" /\ req[r].op = op

\* A name whose slug is taken gets another id: here a profile not in use.
CreateProfile(r) ==
    LET v == req[r].view IN
    /\ Decides(r, "create")
    /\ req[r].profile \notin Range(v.profiles)
    /\ Save(r, SettingsDoc(Append(v.profiles, req[r].profile),
                   v.default, v.route, [v.keys EXCEPT ![req[r].profile] = req[r].key]))
    /\ UNCHANGED <<file, secrets, cache, client, crashes>>
\* A blank key becomes MASK, which _extract_secrets leaves out.
UpdateProfile(r) ==
    LET v == req[r].view IN
    /\ Decides(r, "update")
    /\ req[r].profile \in Range(v.profiles)
    /\ Save(r, [v EXCEPT !.keys[req[r].profile] = req[r].key])
    /\ UNCHANGED <<file, secrets, cache, client, crashes>>
\* The ids of a document are all different.
DeleteProfile(r) ==
    LET v == req[r].view
        left == RemoveFirst(v.profiles, req[r].profile) IN
    /\ Decides(r, "delete")
    /\ req[r].profile \in Range(v.profiles)
    /\ Save(r, SettingsDoc(left,
                   IF v.default # req[r].profile THEN v.default
                   ELSE IF left = <<>> THEN None ELSE left[1],
                   IF v.route = req[r].profile THEN None ELSE v.route,
                   [v.keys EXCEPT ![req[r].profile] = NoKey]))
    /\ UNCHANGED <<file, secrets, cache, client, crashes>>
\* The task is routed to the profile; the default stays.
SaveRouting(r) ==
    /\ Decides(r, "route")
    /\ req[r].profile \in Range(req[r].view.profiles)
    /\ Save(r, [req[r].view EXCEPT !.route = req[r].profile])
    /\ UNCHANGED <<file, secrets, cache, client, crashes>>
\* The page makes the profile its default and saves all it shows.
SavePage(r) ==
    /\ Decides(r, "page")
    /\ \E p \in Range(req[r].view.profiles) : Save(r, [req[r].view EXCEPT !.default = p])
    /\ UNCHANGED <<file, secrets, cache, client, crashes>>
\* ValueError: 404 or 422.
Reject(r) ==
    LET known == req[r].profile \in Range(req[r].view.profiles) IN
    /\ req[r].pc = "decides"
    /\ \/ req[r].op = "create" /\ known
       \/ req[r].op \in {"update", "delete", "route"} /\ ~known
    /\ req' = [req EXCEPT ![r] = [Idle EXCEPT !.pc = "done"]]
    /\ UNCHANGED <<file, secrets, cache, client, crashes>>

-----------------------------------------------------------------------------
(* _persist writes the two files one after the other, in a thread.         *)

WriteFile(r) ==
    /\ req[r].pc = "saving"
    /\ file' = [req[r].doc EXCEPT !.keys = NoKeys]
    /\ req' = [req EXCEPT ![r].pc = "keys"]
    /\ UNCHANGED <<secrets, cache, client, crashes>>
WriteSecrets(r) ==
    /\ req[r].pc = "keys"
    /\ secrets' = req[r].doc.keys
    /\ req' = [req EXCEPT ![r].pc = "written"]
    /\ UNCHANGED <<file, cache, client, crashes>>
Invalidate(r) ==
    /\ req[r].pc = "written"
    /\ cache' = None /\ client' = None
    /\ req' = [req EXCEPT ![r] = [Idle EXCEPT !.pc = "done"]]
    /\ UNCHANGED <<file, secrets, crashes>>

-----------------------------------------------------------------------------
(* A call of a model: create_task_client, whose client is kept.            *)

MakeClient(r) ==
    /\ Decides(r, "call")
    /\ \E p \in Routed(req[r].view) :
           client' = [profile |-> p, key |-> req[r].view.keys[p]]
    /\ req' = [req EXCEPT ![r] = [Idle EXCEPT !.pc = "done"]]
    /\ UNCHANGED <<file, secrets, cache, crashes>>

\* Mutant: no entry of the settings cache is ever too old.
NeverExpires == FALSE /\ UNCHANGED settingsVars
ExpireSettings ==
    /\ cache # None
    /\ cache' = None
    /\ UNCHANGED <<file, secrets, client, req, crashes>>
ExpireClient ==
    /\ client # None
    /\ client' = None
    /\ UNCHANGED <<file, secrets, cache, req, crashes>>
\* A thread that has begun may still write the second file or not: the
\* process is gone with all its requests.
Crash ==
    /\ crashes < MaxCrashes
    /\ crashes' = crashes + 1
    /\ cache' = None /\ client' = None
    /\ req' = [r \in Request |-> IF req[r].pc = "new" THEN req[r] ELSE [Idle EXCEPT !.pc = "done"]]
    /\ UNCHANGED <<file, secrets>>

-----------------------------------------------------------------------------
Continue(r) ==
    \/ Read(r) \/ Fill(r)
    \/ CreateProfile(r) \/ UpdateProfile(r) \/ DeleteProfile(r) \/ SaveRouting(r) \/ SavePage(r) \/ Reject(r)
    \/ WriteFile(r) \/ WriteSecrets(r) \/ Invalidate(r) \/ MakeClient(r)
Next ==
    \/ \E r \in Request :
        \/ \E op \in {"create", "update"}, p \in Profile, k \in Key \cup {NoKey} : Ask(r, op, p, k)
        \/ \E op \in {"delete", "route"}, p \in Profile : Ask(r, op, p, NoKey)
        \/ Ask(r, "call", None, NoKey) \/ AskPage(r)
        \/ Continue(r)
    \/ ExpireSettings \/ ExpireClient \/ Crash
Spec == Init /\ [][Next]_settingsVars
Fairness ==
    /\ \A r \in Request : WF_settingsVars(Continue(r))
    /\ WF_settingsVars(ExpireSettings) /\ WF_settingsVars(ExpireClient)
FairSpec == Spec /\ Fairness

DocOK(doc) ==
    /\ doc.profiles \in Seq(Profile) /\ doc.default \in Profile \cup {None}
    /\ doc.route \in Profile \cup {None} /\ doc.keys \in [Profile -> Key \cup {NoKey}]
TypeOK ==
    /\ DocOK(file) /\ secrets \in [Profile -> Key \cup {NoKey}]
    /\ cache # None => DocOK(cache)
    /\ client # None => client \in [profile : Profile, key : Key \cup {NoKey}]
    /\ \A r \in Request :
        /\ req[r].pc \in {"new", "reading", "filling", "decides", "saving", "keys", "written", "done"}
        /\ DocOK(req[r].view) /\ DocOK(req[r].doc)
    /\ crashes \in 0..MaxCrashes

\* The client of the task is in the end made from the settings in the files:
\* what was cached from older ones, after a save even, does not last.
SettingsReachCalls ==
    <>[](/\ cache # None => cache = Effective
         /\ client # None => client.profile \in Routed(Effective)
                             /\ client.key = Effective.keys[client.profile])

\* "Leave blank to keep existing key.": an update without a key leaves the key
\* that the profile was seen to have in the secrets file.
BlankKeepsKey ==
    [][\A r \in Request :
        req[r].pc = "keys" /\ req'[r].pc = "written" /\ req[r].op = "update" /\ req[r].key = NoKey
            => secrets'[req[r].profile] = req[r].view.keys[req[r].profile]]_settingsVars
=============================================================================

---- MODULE ConfigEditor ----
\* The candidate editor of the management API (management/api.go, config/manager.go,
\* config/editor.go) and the engine whose running configuration it follows. Every
\* handler reads the candidate, works on its copy and stores the whole of it, so
\* the handlers of concurrent requests interleave between those steps; the draft
\* is saved to candidate.json; an answer of the engine may be lost and the API
\* may crash and start again (cmd/ngfw-api/main.go).
EXTENDS Naturals

CONSTANTS
  Request,
  Policies, Rest,       \* the two halves of a configuration that edits replace
  Shadowed,             \* policies the reachability or duplicate check refuses
  Malformed,            \* values of the rest that Validate refuses
  None,
  MaxVersion, MaxRequests, MaxCrashes,
  Scenarios             \* records [policyEdits, saveFaults]

VARIABLES
  scenario,
  up,
  editor,     \* Manager: [candidate, running, version, checked]
  disk,       \* candidate.json: [candidate, running, version]
  engine,     \* [running, previous, version]
  request,
  acknowledged,  \* the drafts a client may take for the candidate
  requests, crashes

vars == <<scenario, up, editor, disk, engine, request, acknowledged, requests, crashes>>

Candidates == [policies : Policies, rest : Rest]
Validate(c) == c.rest \notin Malformed
\* validateCandidateConfig: the schema, then duplicates and reachability.
Accepted(c) == Validate(c) /\ c.policies \notin Shadowed

Unused == [pc |-> "unused", kind |-> "", config |-> None, expected |-> 0]
NoCheck == [config |-> None, valid |-> FALSE]

Init ==
  /\ scenario \in Scenarios
  /\ up = TRUE
  /\ \E c \in {x \in Candidates : Accepted(x)} :
       /\ engine = [running |-> c, previous |-> None, version |-> 0]
       /\ editor = [candidate |-> c, running |-> c, version |-> 0,
                    checked |-> [config |-> c, valid |-> TRUE]]
       /\ disk = [candidate |-> c, running |-> c, version |-> 0]
       /\ acknowledged = {c}
  /\ request = [q \in Request |-> Unused]
  /\ requests = 0 /\ crashes = 0

At(q, kind, pc) == up /\ request[q].kind = kind /\ request[q].pc = pc
Done(q) == request' = [request EXCEPT ![q] = Unused]
Go(q, pc, c) == request' = [request EXCEPT ![q].pc = pc, ![q].config = c]

Start(q, kind, pc, c) ==
  /\ up /\ request[q] = Unused /\ requests < MaxRequests
  /\ requests' = requests + 1
  /\ request' = [request EXCEPT ![q] =
       [pc |-> pc, kind |-> kind, config |-> c, expected |-> engine.version]]
  /\ UNCHANGED <<scenario, up, editor, disk, engine, acknowledged, crashes>>

----
\* persistEditorLocked: the outcome, and what candidate.json then holds. An
\* error may come before the rename or after it.
Persist(saved, ok) ==
  \/ ok /\ disk' = saved
  \/ ~ok /\ scenario.saveFaults /\ disk' \in {disk, saved}


\* SetCandidate: the candidate is replaced once it is saved, whether or not it
\* is well-formed, and its validation is forgotten.
SetCandidate(c, ok) ==
  /\ Persist([candidate |-> c, running |-> editor.running, version |-> editor.version], ok)
  /\ editor' = IF ok THEN [editor EXCEPT !.candidate = c, !.checked = NoCheck] ELSE editor

\* What a client may hold for the draft after an answer about c.
Answered(c, ok) ==
  acknowledged' = IF ok THEN {c} ELSE IF disk' = disk THEN acknowledged ELSE acknowledged \cup {c}

\* policies, policyByID: read the candidate,
ReadForPolicies(q) ==
  /\ scenario.policyEdits
  /\ \E p \in Policies : Start(q, "policies", "store", [editor.candidate EXCEPT !.policies = p])

\* and store the edited copy if it is acceptable. The error of SetCandidate is
\* dropped: the answer is a success.
StorePolicies(q) ==
  /\ At(q, "policies", "store")
  /\ IF Accepted(request[q].config)
     THEN \E ok \in BOOLEAN : /\ SetCandidate(request[q].config, ok)
                              /\ acknowledged' = {request[q].config}
     ELSE UNCHANGED <<editor, disk, acknowledged>>
  /\ Done(q)
  /\ UNCHANGED <<scenario, up, engine, requests, crashes>>

\* interfaces, zones, routes, natRules, profiles, objectByID: likewise, but
\* nothing is asked of the result before it is stored.
ReadForRest(q) ==
  \E r \in Rest : Start(q, "rest", "store", [editor.candidate EXCEPT !.rest = r])

StoreRest(q) ==
  /\ At(q, "rest", "store")
  /\ \E ok \in BOOLEAN : SetCandidate(request[q].config, ok) /\ Answered(request[q].config, ok)
  /\ Done(q)
  /\ UNCHANGED <<scenario, up, engine, requests, crashes>>

\* candidate: a whole configuration, SetCandidateIfValid.
PutCandidate(q) == \E c \in Candidates : Accepted(c) /\ Start(q, "rest", "store", c)

----
\* validate: the candidate is read and checked,
ReadForValidation(q) == Start(q, "validate", "mark", editor.candidate)

\* A mutated form: the badge goes to whatever the candidate is by now.
MarkCandidateValidationNow(c, valid) ==
  editor' = [editor EXCEPT !.checked = [config |-> editor.candidate, valid |-> valid]]

\* MarkCandidateValidationFor: and the result recorded if it is still the same.
MarkCandidateValidationFor(c, valid) ==
  editor' = IF editor.candidate = c
            THEN [editor EXCEPT !.checked = [config |-> c, valid |-> valid]] ELSE editor

Mark(q) ==
  /\ At(q, "validate", "mark")
  /\ MarkCandidateValidationFor(request[q].config, Accepted(request[q].config))
  /\ Done(q)
  /\ UNCHANGED <<scenario, up, disk, engine, acknowledged, requests, crashes>>

\* CandidateValidation: the badge the UI shows.
Badge ==
  CASE editor.checked.config = editor.candidate ->
         IF editor.checked.valid THEN "VALID" ELSE "INVALID"
    [] OTHER -> IF ~Validate(editor.candidate) THEN "INVALID"
                ELSE IF editor.checked # NoCheck THEN "STALE" ELSE "NOT_RUN"

----
\* commit: the candidate is checked,
BeginCommit(q) == Accepted(editor.candidate) /\ Start(q, "commit", "submit", None)

\* read a second time,
SubmitCommit(q) ==
  /\ At(q, "commit", "submit")
  /\ Go(q, "engine", editor.candidate)
  /\ UNCHANGED <<scenario, up, editor, disk, engine, acknowledged, requests, crashes>>

\* CommitConfig's and CommitWithGeneration's own checks.
EngineAccepts(c) == Accepted(c)

\* and sent to the engine, which may refuse it or fail, and whose answer may
\* not arrive.
EngineCommits(q) ==
  /\ At(q, "commit", "engine")
  /\ IF EngineAccepts(request[q].config) /\ request[q].expected = engine.version
     THEN \/ /\ engine' = [running |-> request[q].config, previous |-> engine.running,
                           version |-> engine.version + 1]
             /\ engine.version < MaxVersion
             /\ request' \in {[request EXCEPT ![q].pc = "sync", ![q].expected = engine.version + 1],
                              [request EXCEPT ![q] = Unused]}
          \/ Done(q) /\ UNCHANGED engine
     ELSE Done(q) /\ UNCHANGED engine
  /\ UNCHANGED <<scenario, up, editor, disk, acknowledged, requests, crashes>>

\* SyncRunning: the running copy follows; an untouched candidate follows it.
Synced(c, version) ==
  LET candidate == IF editor.candidate = editor.running THEN c ELSE editor.candidate
  IN  [candidate |-> candidate, running |-> c, version |-> version,
       checked |-> IF candidate = c THEN [config |-> c, valid |-> TRUE] ELSE editor.checked]

Saved(e) == [candidate |-> e.candidate, running |-> e.running, version |-> e.version]

\* A failed save is reported, but the memory stays.
Adopt(e) ==
  \E ok \in BOOLEAN :
    /\ editor' = e
    /\ Persist(Saved(e), ok)
    /\ acknowledged' = {e.candidate} \cup (IF ok THEN {} ELSE {disk'.candidate})

SyncCommit(q) ==
  /\ At(q, "commit", "sync")
  /\ Adopt(Synced(request[q].config, request[q].expected))
  /\ Done(q)
  /\ UNCHANGED <<scenario, up, engine, requests, crashes>>

----
\* rollback: the engine goes back,
BeginRollback(q) == Start(q, "rollback", "engine", None)

EngineRollsBack(q) ==
  /\ At(q, "rollback", "engine")
  /\ IF engine.previous # None /\ engine.version < MaxVersion
     THEN /\ engine' = [running |-> engine.previous, previous |-> engine.running,
                        version |-> engine.version + 1]
          /\ request' \in {[request EXCEPT ![q].pc = "read", ![q].expected = engine.version + 1],
                           [request EXCEPT ![q] = Unused]}
     ELSE Done(q) /\ UNCHANGED engine
  /\ UNCHANGED <<scenario, up, editor, disk, acknowledged, requests, crashes>>

\* its running configuration is asked for in a second call,
ReadRunning(q) ==
  /\ At(q, "rollback", "read")
  /\ Go(q, "sync", engine.running) \/ Done(q)
  /\ UNCHANGED <<scenario, up, editor, disk, engine, acknowledged, requests, crashes>>

\* and SyncRollback replaces the candidate with it.
SyncRollback(q) ==
  /\ At(q, "rollback", "sync")
  /\ Adopt([candidate |-> request[q].config, running |-> request[q].config,
            version |-> request[q].expected,
            checked |-> [config |-> request[q].config, valid |-> TRUE]])
  /\ Done(q)
  /\ UNCHANGED <<scenario, up, engine, requests, crashes>>

----
Crash ==
  /\ up /\ crashes < MaxCrashes
  /\ crashes' = crashes + 1
  /\ up' = FALSE
  /\ request' = [q \in Request |-> Unused]
  /\ UNCHANGED <<scenario, editor, disk, engine, acknowledged, requests>>

\* NewEditorManager takes the saved draft and its base; no validation survives.
Loaded ==
  [candidate |-> disk.candidate, running |-> disk.running, version |-> disk.version,
   checked |-> NoCheck]

\* main: then SyncRunning with the engine's snapshot, if it answers.
Restart ==
  /\ ~up
  /\ up' = TRUE
  /\ \/ editor' = Loaded /\ UNCHANGED disk
     \/ LET candidate == IF disk.candidate = disk.running THEN engine.running
                         ELSE disk.candidate
        IN  /\ editor' = [candidate |-> candidate, running |-> engine.running,
                          version |-> engine.version,
                          checked |-> IF candidate = engine.running
                                      THEN [config |-> candidate, valid |-> TRUE] ELSE NoCheck]
            /\ disk' = Saved(editor')
  /\ acknowledged' = IF disk.candidate \in acknowledged \cap {disk.running}
                     THEN acknowledged \cup {editor'.candidate} ELSE acknowledged
  /\ UNCHANGED <<scenario, engine, request, requests, crashes>>

Next ==
  \/ \E q \in Request :
       \/ ReadForPolicies(q) \/ StorePolicies(q) \/ ReadForRest(q) \/ StoreRest(q)
       \/ PutCandidate(q) \/ ReadForValidation(q) \/ Mark(q)
       \/ BeginCommit(q) \/ SubmitCommit(q) \/ EngineCommits(q) \/ SyncCommit(q)
       \/ BeginRollback(q) \/ EngineRollsBack(q) \/ ReadRunning(q) \/ SyncRollback(q)
  \/ Crash \/ Restart

Spec == Init /\ [][Next]_vars

----
\* The VALID badge is never on a candidate that commit would refuse, however
\* edits, validations and commits of several clients interleave
\* (CandidateValidation, MarkCandidateValidationFor, SyncRunning).
ValidBadgeHolds == up /\ Badge = "VALID" => Accepted(editor.candidate)

\* The engine never runs a configuration the checks refuse, although commit
\* sends a candidate it has read again after checking it (commit, CommitConfig).
EngineRunsAccepted == Accepted(engine.running)

====

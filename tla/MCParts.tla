------------------------------- MODULE MCParts -------------------------------
(* Components that share nothing, side by side: a behaviour is one of them,  *)
(* its subject, and the others keep their initial states.                    *)
EXTENDS MCNotifications, McpSessions, Broadcasts, ElementAdmissions, ElementObservations, Thumbnails, PageCapture, PageClipboard, PageKeys, TLC

CONSTANTS patient, busy, again, rival, A, B, C, X, Y, row1, row2, r1, r2, r3, r4, reference, window1, c1, c2, run

\* Two tokens want one application, and a third has one to itself.
MCTokenOf == (patient :> A) @@ (busy :> B) @@ (again :> B) @@ (rival :> C)
MCApplicationOf == (patient :> X) @@ (busy :> Y) @@ (again :> Y) @@ (rival :> Y)

\* Two tokens share a refresh, and one of them scans a window of the same application.
MCBearerOf == (r1 :> A) @@ (r2 :> B) @@ (r3 :> B) @@ (r4 :> B)
MCJobOf == (r1 :> reference) @@ (r2 :> reference) @@ (r3 :> window1) @@ (r4 :> window1)
MCProgramOf == [j \in Job |-> X]

VARIABLE subject

\* the parts' variables
PartsVars == <<vars, sessionVars, broadcastVars, admissionVars, observationVars, thumbnailVars, captureVars, clipboardVars, keyVars, subject>>

PartsInit ==
  /\ subject \in {"notifications", "sessions", "broadcasts", "admissions", "observations", "thumbnails",
                 "capture", "clipboard", "keys"}
  /\ Init /\ McpInit /\ BroadcastInit /\ AdmissionInit /\ ObservationInit /\ ThumbnailInit /\ CaptureInit /\ ClipboardInit /\ KeysInit

PartsNext ==
  /\ UNCHANGED subject
  /\ \/ /\ subject = "notifications" /\ Next
        /\ UNCHANGED <<sessionVars, broadcastVars, admissionVars, observationVars,
                       thumbnailVars, captureVars, clipboardVars, keyVars>>
     \/ /\ subject = "sessions" /\ McpNext
        /\ UNCHANGED <<vars, broadcastVars, admissionVars, observationVars,
                       thumbnailVars, captureVars, clipboardVars, keyVars>>
     \/ /\ subject = "broadcasts" /\ BroadcastNext
        /\ UNCHANGED <<vars, sessionVars, admissionVars, observationVars,
                       thumbnailVars, captureVars, clipboardVars, keyVars>>
     \/ /\ subject = "admissions" /\ AdmissionNext
        /\ UNCHANGED <<vars, sessionVars, broadcastVars, observationVars,
                       thumbnailVars, captureVars, clipboardVars, keyVars>>
     \/ /\ subject = "observations" /\ ObservationNext
        /\ UNCHANGED <<vars, sessionVars, broadcastVars, admissionVars,
                       thumbnailVars, captureVars, clipboardVars, keyVars>>
     \/ /\ subject = "thumbnails" /\ ThumbnailNext
        /\ UNCHANGED <<vars, sessionVars, broadcastVars, admissionVars,
                       observationVars, captureVars, clipboardVars, keyVars>>
     \/ /\ subject = "capture" /\ CaptureNext
        /\ UNCHANGED <<vars, sessionVars, broadcastVars, admissionVars,
                       observationVars, thumbnailVars, clipboardVars, keyVars>>
     \/ /\ subject = "clipboard" /\ ClipboardNext
        /\ UNCHANGED <<vars, sessionVars, broadcastVars, admissionVars,
                       observationVars, thumbnailVars, captureVars, keyVars>>
     \/ /\ subject = "keys" /\ KeysNext
        /\ UNCHANGED <<vars, sessionVars, broadcastVars, admissionVars,
                       observationVars, thumbnailVars, captureVars, clipboardVars>>

\* The fairness of each part, which binds it only where it is the subject.
PartsSpec ==
  /\ PartsInit /\ [][PartsNext]_PartsVars
  /\ WF_vars(subject = "notifications" /\ Timers) /\ WF_vars(subject = "notifications" /\ Broadcasts)
  /\ WF_sessionVars(subject = "sessions" /\ Sweep) /\ WF_sessionVars(subject = "sessions" /\ Reap)
  /\ WF_sessionVars(subject = "sessions" /\ \E id \in SessionIds : Idle(id))
  /\ WF_sessionVars(subject = "sessions" /\ InitializationEnds)
  /\ WF_admissionVars(subject = "admissions" /\ Task)
  /\ WF_admissionVars(subject = "admissions" /\ Releases)
  /\ WF_clipboardVars(subject = "clipboard" /\ Refresh) /\ WF_clipboardVars(subject = "clipboard" /\ Serve)
  /\ WF_clipboardVars(subject = "clipboard" /\ (TakeState \/ TakeBody \/ Fail))
=============================================================================

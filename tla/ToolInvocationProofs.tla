------------------------ MODULE ToolInvocationProofs ------------------------
(***************************************************************************)
(* Proofs about ToolInvocation, for any calls and bounds: type             *)
(* correctness, that the worker acts at most once on a phase and only with *)
(* the Owner's approvals, and that a withdrawal takes hold.                *)
(***************************************************************************)
EXTENDS ToolInvocation, TLAPS

-----------------------------------------------------------------------------
(* The inductive invariant *)

Points ==
  {"idle", "open", "active", "check", "list", "consume", "ask", "suspend", "wait_owner", "load",
   "issue", "create", "keep", "enter", "replay", "record", "admit", "send", "wait_worker", "event",
   "settle", "final", "giveup"}

\* From the point at which the request is on record; at which the handle is
\* saved; at which a new handle is made; and all points of a worker phase.
RequestPoints == {"admit", "send", "wait_worker", "event", "settle", "final", "giveup"}
SavedPoints == RequestPoints \cup {"enter", "replay", "record"}
IssuePoints == {"issue", "create", "keep"}
PhasePoints == SavedPoints \cup IssuePoints \cup {"load"}

\* The parts of the type invariant.
CallTypes ==
  /\ run \in {"running", "waiting", "ended"}
  /\ at \in [call : Calls \cup {"none"}, step : 0 .. 5, pc : Points]
  /\ (at = Idle) <=> (at.call = "none")
  /\ (run = "waiting") <=> (at.pc = "wait_owner")
  /\ outcome \in [Calls -> {"none", "shown", "failed", "unknown"}]

WorldTypes ==
  /\ fence \in Nat /\ workerUp \in BOOLEAN /\ dir \in Nat /\ troubles \in 0 .. MaxTroubles
  /\ cap \in [life : {"active", "update_proposed", "update_approved", "disabled"},
              version : Nat, rollback : Nat]
  /\ late \subseteq Calls

RecordTypes ==
  /\ over \subseteq intent /\ intent \subseteq saved /\ saved \subseteq Phases
  /\ receipt \subseteq intent /\ \A k \in receipt : handle[k] = "consumed"
  /\ context \in [Calls -> [fence : Nat, dir : Nat]]
  /\ approval \in [Intents -> {"none", "pending", "approved", "denied", "expired"}]
  /\ used \subseteq Intents
  /\ handle \in [Phases -> {"none", "active", "consumed", "revoked"}]

ResultTypes ==
  /\ revoked \subseteq Intents /\ closed \subseteq Calls /\ barred \subseteq Phases
  /\ result \in [Phases -> {"none", "succeeded", "failed", "unknown"}]
  /\ job \in [Phases -> {"none", "sent", "working", "lost"} \cup Ended]
  /\ effects \in [Phases -> Nat]

\* The intent that step s of call c is about.
About(c, s) == <<c, StepsOf(c)[s].op>>

\* Call c is in progress, at point p of its step s: the worker's phases run
\* under a used grant, a saved handle and a recorded request, each from its
\* point on, and end with the worker's report; a file is read once its
\* disclosure is granted as well, and the last step of a read comes after the
\* recorded success of the reading.
Going(c, s, p) ==
  /\ s \in 1 .. Len(StepsOf(c)) /\ p # "idle" /\ outcome[c] = "none"
  /\ p \in PhasePoints => StepsOf(c)[s].phase = TRUE /\ About(c, s) \in used
  /\ p \in IssuePoints => About(c, s) \notin saved
  /\ p \in SavedPoints => About(c, s) \in saved
  /\ p \in RequestPoints => About(c, s) \in intent
  /\ p = "send" => About(c, s) \in receipt /\ job[About(c, s)] = "none"
  /\ p \in {"event", "settle"} => job[About(c, s)] \in Ended
  /\ c \notin Coding /\ s \in {4, 5} => <<c, "disclose">> \in used
  /\ c \notin Coding /\ s = 5 => result[LastPhase(c)] = "succeeded"

Progress == at.call # "none" => Going(at.call, at.step, at.pc)

\* What was used was approved, and a receipt rests on the grants of its phase.
Consents ==
  /\ \A i \in used : approval[i] = "approved"
  /\ \A k \in receipt : k \in used /\ (k[2] = "read" => <<k[1], "disclose">> \in used)

\* The worker knows only phases with a receipt, and a phase it has acted on is
\* not waiting for its input again.
Acts ==
  \A k \in Phases :
    /\ job[k] # "none" => k \in receipt
    /\ effects[k] \in {0, 1}
    /\ effects[k] = 1 => job[k] \notin {"none", "sent"}

\* A withdrawal is for good.
Stopped == run = "ended" \/ cap.life = "disabled"

Barred == \A k \in barred : effects[k] = 0 /\ (k \in revoked \/ Stopped)

Shown == \A c \in Calls : outcome[c] = "shown" => result[LastPhase(c)] = "succeeded"

\* Why a withdrawn call is not shown: its result can no longer be recorded as
\* a success; or the grant of its last phase is revoked, and the phase does not
\* return; or the grant of the disclosure is, and the last step is refused.
ClosedCall(c) ==
  \/ Stopped /\ result[LastPhase(c)] # "succeeded"
  \/ LastPhase(c) \in revoked /\ (c \notin Coding => ~(at.call = c /\ at.step = 5))
  \/ /\ c \notin Coding /\ <<c, "disclose">> \in revoked
     /\ ~(at.call = c /\ at.step = 5 /\ at.pc = "consume")

Closed == \A c \in closed : outcome[c] # "shown" /\ ClosedCall(c)

Inv ==
  /\ CallTypes /\ WorldTypes /\ RecordTypes /\ ResultTypes
  /\ Progress /\ Consents /\ Acts /\ Barred /\ Shown /\ Closed

-----------------------------------------------------------------------------
(* Facts about steps and subjects *)

(* The steps of the two kinds of calls. *)
LEMMA StepLists ==
  /\ Len(ReadSteps) = 5 /\ Len(CodingSteps) = 1
  /\ ReadSteps[1].op = "inspect" /\ ReadSteps[1].phase = TRUE
  /\ ReadSteps[2].op = "read" /\ ReadSteps[2].phase = FALSE
  /\ ReadSteps[3].op = "disclose" /\ ReadSteps[3].phase = FALSE
  /\ ReadSteps[4].op = "read" /\ ReadSteps[4].phase = TRUE
  /\ ReadSteps[5].op = "disclose" /\ ReadSteps[5].phase = FALSE
  /\ CodingSteps[1].op = "tool" /\ CodingSteps[1].phase = TRUE
<1>1. Len(ReadSteps) = 5 /\ Len(CodingSteps) = 1
  BY DEF ReadSteps, CodingSteps
<1>2. ReadSteps[1].op = "inspect" /\ ReadSteps[1].phase = TRUE
  BY DEF ReadSteps
<1>3. ReadSteps[2].op = "read" /\ ReadSteps[2].phase = FALSE
  BY DEF ReadSteps
<1>4. ReadSteps[3].op = "disclose" /\ ReadSteps[3].phase = FALSE
  BY DEF ReadSteps
<1>5. ReadSteps[4].op = "read" /\ ReadSteps[4].phase = TRUE
  BY DEF ReadSteps
<1>6. ReadSteps[5].op = "disclose" /\ ReadSteps[5].phase = FALSE
  BY DEF ReadSteps
<1>7. CodingSteps[1].op = "tool" /\ CodingSteps[1].phase = TRUE
  BY DEF CodingSteps
<1> QED
  BY <1>1, <1>2, <1>3, <1>4, <1>5, <1>6, <1>7

(* Each step is about an intent of its call; worker phases are the one step *)
(* of a coding tool and the first and fourth of a file read; the last phase *)
(* of a call is the fourth step of a read.                                  *)
StepFact(c, s) ==
  /\ s \in 1 .. 5
  /\ About(c, s) \in Intents /\ About(c, s)[1] = c
  /\ StepsOf(c)[s].phase = TRUE \/ StepsOf(c)[s].phase = FALSE
  /\ StepsOf(c)[s].phase = TRUE => About(c, s) \in Phases
  /\ c \in Coding =>
       /\ Len(StepsOf(c)) = 1 /\ s = 1
       /\ StepsOf(c)[s].phase = TRUE /\ About(c, s) = LastPhase(c)
       /\ About(c, s)[2] # "read"
  /\ c \notin Coding =>
       /\ Len(StepsOf(c)) = 5
       /\ StepsOf(c)[s].phase = TRUE => s \in {1, 4}
       /\ s = 1 => About(c, s)[2] = "inspect"
       /\ s = 4 => StepsOf(c)[s].phase = TRUE /\ About(c, s) = LastPhase(c)
       /\ s \in {3, 5} => About(c, s) = <<c, "disclose">>
       /\ s \in {2, 3, 5} => StepsOf(c)[s].phase = FALSE
  /\ LastPhase(c) \in Phases /\ LastPhase(c)[1] = c

(* So it is for all calls and steps. *)
LEMMA StepFacts ==
  ASSUME NEW c \in Calls, NEW s \in 1 .. Len(StepsOf(c))
  PROVE  StepFact(c, s)
<1>1. CASE c \in Coding
  <2>1. StepsOf(c) = CodingSteps
    BY <1>1 DEF StepsOf
  <2>2. Len(StepsOf(c)) = 1 /\ s = 1 /\ s \in 1 .. 5
    BY <2>1, StepLists
  <2>3. About(c, s) = <<c, "tool">> /\ StepsOf(c)[s].phase = TRUE
    BY <2>1, <2>2, StepLists DEF About
  <2>4. <<c, "tool">> \in Phases /\ <<c, "tool">> \in Intents
    BY <1>1 DEF Phases, Intents
  <2>5. LastPhase(c) = <<c, "tool">> /\ LastPhase(c)[1] = c
    BY <1>1 DEF LastPhase
  <2>6. About(c, s)[1] = c /\ About(c, s)[2] = "tool"
    BY <2>3
  <2> QED
    BY <1>1, <2>2, <2>3, <2>4, <2>5, <2>6 DEF StepFact
<1>2. CASE c \notin Coding
  <2>1. StepsOf(c) = ReadSteps
    BY <1>2 DEF StepsOf
  <2>2. Len(StepsOf(c)) = 5 /\ s \in 1 .. 5
    BY <2>1, StepLists
  <2>3. s = 1 \/ s = 2 \/ s = 3 \/ s = 4 \/ s = 5
    BY <2>2
  <2>4. /\ {<<c, "inspect">>, <<c, "read">>} \subseteq Phases
        /\ {<<c, "inspect">>, <<c, "read">>, <<c, "disclose">>} \subseteq Intents
    BY <1>2 DEF Phases, Intents
  <2>5. LastPhase(c) = <<c, "read">> /\ LastPhase(c)[1] = c
    BY <1>2 DEF LastPhase
  <2>6. CASE s = 1
    <3>1. About(c, s) = <<c, "inspect">> /\ StepsOf(c)[s].phase = TRUE
      BY <2>1, <2>6, StepLists DEF About
    <3>2. About(c, s)[1] = c /\ About(c, s)[2] = "inspect"
      BY <3>1
    <3> QED
      BY <1>2, <2>2, <2>4, <2>5, <2>6, <3>1, <3>2 DEF StepFact
  <2>7. CASE s = 2
    <3>1. About(c, s) = <<c, "read">> /\ StepsOf(c)[s].phase = FALSE
      BY <2>1, <2>7, StepLists DEF About
    <3>2. About(c, s)[1] = c /\ About(c, s)[2] = "read"
      BY <3>1
    <3> QED
      BY <1>2, <2>2, <2>4, <2>5, <2>7, <3>1, <3>2 DEF StepFact
  <2>8. CASE s = 3 \/ s = 5
    <3>1. About(c, s) = <<c, "disclose">> /\ StepsOf(c)[s].phase = FALSE
      BY <2>1, <2>8, StepLists DEF About
    <3>2. About(c, s)[1] = c /\ About(c, s)[2] = "disclose"
      BY <3>1
    <3> QED
      BY <1>2, <2>2, <2>4, <2>5, <2>8, <3>1, <3>2 DEF StepFact
  <2>9. CASE s = 4
    <3>1. About(c, s) = <<c, "read">> /\ StepsOf(c)[s].phase = TRUE
      BY <2>1, <2>9, StepLists DEF About
    <3>2. About(c, s)[1] = c /\ About(c, s)[2] = "read"
      BY <3>1
    <3> QED
      BY <1>2, <2>2, <2>4, <2>5, <2>9, <3>1, <3>2 DEF StepFact
  <2> QED
    BY <2>3, <2>6, <2>7, <2>8, <2>9
<1> QED
  BY <1>1, <1>2

(* Every call has a first step. *)
LEMMA FirstStep == \A c \in Calls : 1 \in 1 .. Len(StepsOf(c))
<1> SUFFICES ASSUME NEW c \in Calls PROVE 1 \in 1 .. Len(StepsOf(c))
  OBVIOUS
<1>1. Len(StepsOf(c)) = 1 \/ Len(StepsOf(c)) = 5
  <2>1. CASE c \in Coding
    BY <2>1, StepLists DEF StepsOf
  <2>2. CASE c \notin Coding
    BY <2>2, StepLists DEF StepsOf
  <2> QED
    BY <2>1, <2>2
<1> QED
  BY <1>1

(* The last worker phase of a call. *)
LEMMA LastPhases == \A c \in Calls : LastPhase(c) \in Phases /\ LastPhase(c)[1] = c
<1> SUFFICES ASSUME NEW c \in Calls PROVE LastPhase(c) \in Phases /\ LastPhase(c)[1] = c
  OBVIOUS
<1>1. CASE c \in Coding
  BY <1>1 DEF LastPhase, Phases
<1>2. CASE c \notin Coding
  BY <1>2 DEF LastPhase, Phases
<1> QED
  BY <1>1, <1>2

-----------------------------------------------------------------------------
(* The kinds of steps *)

\* Call c is at point p of its step s.
Now(c, s, p) ==
  /\ c \in Calls /\ s \in 1 .. Len(StepsOf(c)) /\ p \in Points \ {"idle"}
  /\ at = [call |-> c, step |-> s, pc |-> p]

\* What a step leaves to show besides the call in progress.
DataKept == WorldTypes /\ RecordTypes /\ ResultTypes /\ Consents /\ Acts

(* The call in progress goes on to point n. *)
LEMMA Goes ==
  ASSUME Inv, NEW c, NEW s, NEW p, Now(c, s, p), p # "wait_owner",
         NEW n \in Points \ {"idle", "wait_owner"},
         at' = [at EXCEPT !.pc = n],
         UNCHANGED <<run, outcome, cap, revoked, result, effects, barred, closed>>,
         DataKept', Going(c, s, n)',
         n = "consume" => About(c, s) \notin revoked
  PROVE  Inv'
<1>1. at' = [call |-> c, step |-> s, pc |-> n] /\ at.call = c /\ at.step = s /\ at.pc = p
  BY DEF Now
<1>2. at'.call = c /\ at'.step = s /\ at'.pc = n
  BY <1>1
<1>3. c \in Calls /\ c # "none" /\ StepFact(c, s)
  BY CallsAssumption, StepFacts DEF Now
<1>4. at' # Idle /\ Idle.call = "none"
  BY <1>2, <1>3 DEF Idle
<1>5. CallTypes'
  <2>1. run \in {"running", "ended"}
    BY <1>1 DEF Inv, CallTypes
  <2>2. at' \in [call : Calls \cup {"none"}, step : 0 .. 5, pc : Points]
    <3>1. s \in 0 .. 5
      BY <1>3 DEF StepFact
    <3> QED
      BY <1>1, <1>3, <3>1
  <2> QED
    BY <1>2, <1>3, <1>4, <2>1, <2>2 DEF Inv, CallTypes
<1>6. Progress'
  BY <1>2 DEF Progress
<1>7. Barred' /\ Shown'
  BY DEF Inv, Barred, Shown, Stopped
<1>8. ASSUME NEW d \in closed' PROVE outcome'[d] # "shown" /\ ClosedCall(d)'
  <2>1. outcome[d] # "shown" /\ ClosedCall(d)
    BY <1>8 DEF Inv, Closed
  <2>2. d = c /\ c \notin Coding /\ s = 5 /\ n = "consume" => <<d, "disclose">> \notin revoked
    BY <1>3 DEF StepFact
  <2> QED
    BY <1>1, <1>2, <2>1, <2>2 DEF ClosedCall, Stopped
<1>9. Closed'
  BY <1>8 DEF Closed
<1> QED
  BY <1>5, <1>6, <1>7, <1>9 DEF Inv, DataKept

(* The call in progress ends and shows nothing. *)
LEMMA Ends ==
  ASSUME Inv, NEW c, NEW s, NEW p, Now(c, s, p), NEW o \in {"failed", "unknown"},
         at' = Idle, outcome' = [outcome EXCEPT ![c] = o],
         run' \in {"running", "ended"}, run = "ended" => run' = "ended",
         UNCHANGED <<cap, revoked, effects, barred, closed>>,
         DataKept',
         \A k \in Phases : k[1] # c => result'[k] = result[k],
         \A k \in Phases : result'[k] = "succeeded" => result[k] = "succeeded"
  PROVE  Inv'
<1>1. Idle \in [call : Calls \cup {"none"}, step : 0 .. 5, pc : Points]
  BY DEF Idle, Points
<1>2. Idle.call = "none" /\ Idle.pc = "idle"
  BY DEF Idle
<1>3. at'.call = "none" /\ at'.pc = "idle"
  BY <1>2
<1>4. outcome' \in [Calls -> {"none", "shown", "failed", "unknown"}]
  BY DEF Inv, CallTypes
<1>5. c \in Calls /\ \A d \in Calls : outcome'[d] = IF d = c THEN o ELSE outcome[d]
  BY DEF Now, Inv, CallTypes
<1>6. CallTypes' /\ Progress'
  BY <1>1, <1>3, <1>4 DEF CallTypes, Progress
<1>7. Stopped => Stopped'
  BY DEF Stopped
<1>8. Barred'
  BY <1>7 DEF Inv, Barred
<1>9. Shown'
  <2> SUFFICES ASSUME NEW d \in Calls, outcome'[d] = "shown" PROVE result'[LastPhase(d)] = "succeeded"
    BY DEF Shown
  <2>1. d # c /\ result[LastPhase(d)] = "succeeded"
    BY <1>5 DEF Inv, Shown
  <2>2. LastPhase(d) \in Phases /\ LastPhase(d)[1] = d
    BY LastPhases
  <2> QED
    BY <2>1, <2>2
<1>10. ASSUME NEW d \in closed' PROVE outcome'[d] # "shown" /\ ClosedCall(d)'
  <2>1. d \in Calls /\ outcome[d] # "shown" /\ ClosedCall(d)
    BY <1>10 DEF Inv, Closed, ResultTypes
  <2>2. LastPhase(d) \in Phases
    BY <2>1, LastPhases
  <2>3. d # "none"
    BY <2>1, CallsAssumption
  <2> QED
    BY <1>3, <1>5, <1>7, <2>1, <2>2, <2>3 DEF ClosedCall
<1>11. Closed'
  BY <1>10 DEF Closed
<1> QED
  BY <1>6, <1>8, <1>9, <1>11 DEF Inv, DataKept

(* A step is done: the call goes on to its next step, or is shown.  It is   *)
(* never shown once it was closed.                                          *)
LEMMA Advances ==
  ASSUME Inv, NEW c, NEW s, NEW p, Now(c, s, p), p # "wait_owner",
         Advance,
         UNCHANGED <<cap, revoked, result, effects, barred, closed>>,
         DataKept', used \subseteq used',
         \/ /\ StepsOf(c)[s].phase = TRUE
            /\ result[About(c, s)] = "succeeded" /\ About(c, s) \notin revoked
         \/ /\ StepsOf(c)[s].phase = FALSE
            /\ p = "consume" /\ About(c, s) \in used'
  PROVE  Inv'
<1>1. at.call = c /\ at.step = s /\ at.pc = p /\ c \in Calls /\ c # "none"
  BY CallsAssumption DEF Now
<1>2. StepFact(c, s)
  BY <1>1, StepFacts DEF Now
<1>3. Going(c, s, p)
  BY <1>1 DEF Inv, Progress
<1>4. run' = run /\ run \in {"running", "ended"}
  BY <1>1 DEF Advance, Inv, CallTypes
<1>5. Barred'
  BY <1>4 DEF Inv, Barred, Stopped
<1>6. Stopped' <=> Stopped
  BY <1>4 DEF Stopped
<1>7. CASE s = Len(StepsOf(c))
  <2>1. at' = Idle /\ outcome' = [outcome EXCEPT ![c] = "shown"]
    BY <1>1, <1>7 DEF Advance, End
  <2>2. result[LastPhase(c)] = "succeeded"
    BY <1>2, <1>3, <1>7 DEF Going, StepFact
  <2>3. c \notin closed
    <3> SUFFICES ASSUME c \in closed PROVE FALSE
      OBVIOUS
    <3>1. ClosedCall(c)
      BY DEF Inv, Closed
    <3>2. CASE c \in Coding
      BY <1>2, <2>2, <3>1, <3>2 DEF ClosedCall, StepFact
    <3>3. CASE c \notin Coding
      BY <1>1, <1>2, <1>7, <2>2, <3>1, <3>3 DEF ClosedCall, StepFact
    <3> QED
      BY <3>2, <3>3
  <2>4. Idle \in [call : Calls \cup {"none"}, step : 0 .. 5, pc : Points]
    BY DEF Idle, Points
  <2>5. at'.call = "none" /\ at'.pc = "idle"
    BY <2>1 DEF Idle
  <2>6. /\ outcome' \in [Calls -> {"none", "shown", "failed", "unknown"}]
        /\ \A d \in Calls : outcome'[d] = IF d = c THEN "shown" ELSE outcome[d]
    BY <2>1 DEF Inv, CallTypes
  <2>7. CallTypes' /\ Progress'
    BY <1>4, <2>1, <2>4, <2>5, <2>6 DEF CallTypes, Progress
  <2>8. Shown'
    BY <2>2, <2>6 DEF Inv, Shown
  <2>9. ASSUME NEW d \in closed' PROVE outcome'[d] # "shown" /\ ClosedCall(d)'
    <3>1. d \in Calls /\ d # c /\ outcome[d] # "shown" /\ ClosedCall(d)
      BY <2>3, <2>9 DEF Inv, Closed, ResultTypes
    <3>2. d # "none"
      BY <3>1, CallsAssumption
    <3> QED
      BY <1>6, <2>5, <2>6, <3>1, <3>2 DEF ClosedCall
  <2>10. Closed'
    BY <2>9 DEF Closed
  <2> QED
    BY <1>5, <2>7, <2>8, <2>10 DEF Inv, DataKept
<1>8. CASE s # Len(StepsOf(c))
  <2>1. c \notin Coding /\ Len(StepsOf(c)) = 5 /\ s \in 1 .. 4
    <3>1. c \notin Coding
      BY <1>2, <1>8 DEF StepFact
    <3>2. Len(StepsOf(c)) = 5 /\ s \in 1 .. 5
      BY <1>2, <3>1 DEF StepFact
    <3>3. s # 5
      BY <1>8, <3>2
    <3> QED
      BY <3>1, <3>2, <3>3
  <2>2. PICK t : t = s + 1
    OBVIOUS
  <2>3. t \in 2 .. 5 /\ (t = 4 => s = 3) /\ (t = 5 => s = 4)
    BY <2>1, <2>2
  <2>4. PICK n \in {"active", "check"} : n = PcOf(c, t)
    BY DEF PcOf
  <2>5. at' = [at EXCEPT !.step = t, !.pc = n] /\ outcome' = outcome
    BY <1>1, <1>8, <2>2, <2>4 DEF Advance
  <2>6. at' = [call |-> c, step |-> t, pc |-> n]
    BY <2>5 DEF Now
  <2>7. at'.call = c /\ at'.step = t /\ at'.pc = n
    BY <2>6
  <2>8. at' # Idle
    BY <1>1, <2>7 DEF Idle
  <2>9. CallTypes'
    <3>1. at' \in [call : Calls \cup {"none"}, step : 0 .. 5, pc : Points]
      BY <1>1, <2>3, <2>6 DEF Points
    <3> QED
      BY <1>1, <1>4, <2>5, <2>7, <2>8, <3>1 DEF Inv, CallTypes
  <2>10. /\ s = 3 => StepsOf(c)[s].phase = FALSE /\ About(c, s) = <<c, "disclose">>
         /\ s = 4 => StepsOf(c)[s].phase = TRUE /\ About(c, s) = LastPhase(c)
    BY <1>2, <2>1 DEF StepFact
  <2>11. Going(c, t, n)'
    BY <1>3, <2>1, <2>3, <2>4, <2>5, <2>10
    DEF Going, PhasePoints, SavedPoints, IssuePoints, RequestPoints
  <2>12. Progress'
    BY <2>7, <2>11 DEF Progress
  <2>13. Shown'
    BY <2>5 DEF Inv, Shown
  <2>14. ASSUME NEW d \in closed' PROVE outcome'[d] # "shown" /\ ClosedCall(d)'
    <3>1. outcome[d] # "shown" /\ ClosedCall(d)
      BY <2>14 DEF Inv, Closed
    <3>2. CASE d = c
      BY <1>1, <1>6, <2>3, <2>4, <2>5, <2>7, <2>10, <3>1, <3>2 DEF ClosedCall
    <3>3. CASE d # c
      BY <1>6, <2>5, <2>7, <3>1, <3>3 DEF ClosedCall
    <3> QED
      BY <3>2, <3>3
  <2>15. Closed'
    BY <2>14 DEF Closed
  <2> QED
    BY <1>5, <2>9, <2>12, <2>13, <2>15 DEF Inv, DataKept
<1> QED
  BY <1>7, <1>8

(* The call in progress stays where it is. *)
LEMMA Stays ==
  ASSUME Inv, UNCHANGED <<at, outcome, saved, intent>>,
         run' = run \/ (run' = "ended" /\ run # "waiting"),
         DataKept', used \subseteq used', receipt \subseteq receipt', UNCHANGED result,
         \A k \in Phases : job[k] \in Ended \cup {"none"} => job'[k] = job[k],
         Barred', Closed'
  PROVE  Inv'
<1>1. CallTypes'
  BY DEF Inv, CallTypes
<1>2. Progress'
  <2>1. PICK c, s, p : c = at.call /\ s = at.step /\ p = at.pc
    OBVIOUS
  <2>2. at'.call = c /\ at'.step = s /\ at'.pc = p
    BY <2>1
  <2>3. CASE c # "none"
    <3>1. c \in Calls /\ Going(c, s, p)
      BY <2>1, <2>3 DEF Inv, Progress, CallTypes
    <3>2. StepFact(c, s)
      BY <3>1, StepFacts DEF Going
    <3>3. p \in {"send", "event", "settle"} => About(c, s) \in Phases
      BY <3>1, <3>2 DEF Going, StepFact, PhasePoints, SavedPoints, RequestPoints
    <3>4. Going(c, s, p)'
      BY <3>1, <3>3 DEF Going
    <3> QED
      BY <2>2, <3>4 DEF Progress
  <2>4. CASE c = "none"
    BY <2>2, <2>4 DEF Progress
  <2> QED
    BY <2>3, <2>4
<1>3. Shown'
  BY DEF Inv, Shown
<1> QED
  BY <1>1, <1>2, <1>3 DEF Inv, DataKept

-----------------------------------------------------------------------------
(* The service *)

(* The call in progress, and what its step is about. *)
LEMMA InProgress ==
  ASSUME Inv, at.pc # "idle"
  PROVE  \E c, s, p :
           /\ Now(c, s, p) /\ Going(c, s, p) /\ StepFact(c, s)
           /\ at.call = c /\ at.step = s /\ at.pc = p
           /\ Subject = About(c, s) /\ Step = StepsOf(c)[s]
<1>1. PICK c, s, p : c = at.call /\ s = at.step /\ p = at.pc
  OBVIOUS
<1>2. c # "none"
  BY <1>1 DEF Inv, CallTypes, Idle
<1>3. c \in Calls /\ p \in Points \ {"idle"} /\ at = [call |-> c, step |-> s, pc |-> p]
  BY <1>1, <1>2 DEF Inv, CallTypes
<1>4. Going(c, s, p)
  BY <1>1, <1>2 DEF Inv, Progress
<1>5. Subject = About(c, s) /\ Step = StepsOf(c)[s]
  BY <1>1 DEF Subject, Step, About
<1>6. Now(c, s, p) /\ StepFact(c, s)
  BY <1>3, <1>4, StepFacts DEF Now, Going
<1> QED
  BY <1>1, <1>4, <1>5, <1>6

(* Nothing but the call in progress has changed. *)
LEMMA DataUnchanged ==
  ASSUME Inv, UNCHANGED <<world, authorization, records, job, effects, history>>
  PROVE  DataKept'
BY DEF Inv, DataKept, WorldTypes, RecordTypes, ResultTypes, Consents, Acts, world, authorization,
       records, history

(* The call goes on and nothing else changes. *)
LEMMA PlainGoes ==
  ASSUME Inv, NEW c, NEW s, NEW p, Now(c, s, p), p # "wait_owner",
         NEW n \in Points \ {"idle", "wait_owner"}, GoTo(n), Going(c, s, n),
         UNCHANGED <<run, outcome>>,
         UNCHANGED <<world, authorization, records, job, effects, history>>,
         n = "consume" => About(c, s) \notin revoked
  PROVE  Inv'
<1>1. DataKept'
  BY DataUnchanged
<1>2. Going(c, s, n)'
  BY DEF Going, records, authorization
<1>3. UNCHANGED <<run, outcome, cap, revoked, result, effects, barred, closed>>
  BY DEF world, authorization, records, history
<1> QED
  BY <1>1, <1>2, <1>3, Goes DEF GoTo

(* The call is refused or throws and nothing else changes. *)
LEMMA PlainEnds ==
  ASSUME Inv, NEW c, NEW s, NEW p, Now(c, s, p),
         Throw \/ (Refuse /\ p # "wait_owner"),
         UNCHANGED <<world, authorization, records, job, effects, history>>
  PROVE  Inv'
<1>1. DataKept'
  BY DataUnchanged
<1>2. UNCHANGED <<cap, revoked, effects, barred, closed, result>>
  BY DEF world, authorization, records, history
<1>3. at.call = c /\ at.pc = p
  BY DEF Now
<1>4. PICK o \in {"failed", "unknown"} : at' = Idle /\ outcome' = [outcome EXCEPT ![c] = o]
  BY <1>3 DEF Throw, Refuse, End
<1>5. run' \in {"running", "ended"} /\ (run = "ended" => run' = "ended")
  BY <1>3 DEF Throw, Refuse, Inv, CallTypes
<1> QED
  BY <1>1, <1>2, <1>4, <1>5, Ends

(* The step is done and nothing else changes. *)
LEMMA PlainAdvances ==
  ASSUME Inv, NEW c, NEW s, NEW p, Now(c, s, p), p # "wait_owner", Advance,
         UNCHANGED <<world, authorization, records, job, effects, history>>,
         StepsOf(c)[s].phase = TRUE, result[About(c, s)] = "succeeded", About(c, s) \notin revoked
  PROVE  Inv'
<1>1. DataKept'
  BY DataUnchanged
<1>2. UNCHANGED <<cap, revoked, result, effects, barred, closed, used>>
  BY DEF world, authorization, records, history
<1> QED
  BY <1>1, <1>2, Advances

(* The steps that look something up and go on, or end the call. *)
LEMMA LookSteps ==
  ASSUME Inv, Active \/ Check \/ List \/ Load \/ Issue \/ Enter \/ Poll \/ Event
  PROVE  Inv'
<1>1. UNCHANGED <<world, authorization, records, job, effects, history>>
  BY DEF Active, Check, List, Load, Issue, Enter, Poll, Event
<1>2. at.pc \in {"active", "check", "list", "load", "issue", "enter", "wait_worker", "event"}
  BY DEF Active, Check, List, Load, Issue, Enter, Poll, Event, At
<1>3. PICK c, s, p :
        /\ Now(c, s, p) /\ Going(c, s, p) /\ StepFact(c, s)
        /\ at.call = c /\ at.step = s /\ at.pc = p /\ Subject = About(c, s)
  BY <1>2, InProgress
<1>4. ASSUME Throw \/ Refuse PROVE Inv'
  BY <1>1, <1>2, <1>3, <1>4, PlainEnds
<1>5. ASSUME NEW n \in Points, GoTo(n), UNCHANGED <<run, outcome>>,
             \/ n \in {"check", "list", "ask"}
             \/ n = "consume" /\ GrantLive(Subject)
             \/ p = "load" /\ n = (IF Subject \in saved THEN "enter" ELSE "issue")
             \/ p = "issue" /\ n = "create"
             \/ p = "enter" /\ n \in {"replay", "record"}
             \/ p = "wait_worker" /\ n = "event" /\ job[Subject] \in Ended
             \/ p = "wait_worker" /\ n = "giveup"
             \/ p = "event" /\ n \in {"settle", "giveup"}
      PROVE  Inv'
  <2>1. n \in Points \ {"idle", "wait_owner"}
    BY <1>5
  <2>2. Going(c, s, n)
    BY <1>3, <1>5 DEF Going, PhasePoints, SavedPoints, IssuePoints, RequestPoints
  <2>3. n = "consume" => About(c, s) \notin revoked
    BY <1>3, <1>5 DEF GrantLive
  <2> QED
    BY <1>1, <1>2, <1>3, <1>5, <2>1, <2>2, <2>3, PlainGoes
<1>6. CASE Active \/ Check \/ Issue
  BY <1>3, <1>4, <1>5, <1>6 DEF Active, Check, Issue, At, Points
<1>7. CASE List
  BY <1>1, <1>5, <1>7 DEF List, Points
<1>8. CASE Load
  BY <1>3, <1>4, <1>5, <1>8 DEF Load, At, Points
<1>9. CASE Enter
  BY <1>3, <1>4, <1>5, <1>9 DEF Enter, At, Points
<1>10. CASE Poll \/ Event
  BY <1>3, <1>5, <1>10 DEF Poll, Event, At, Points
<1> QED
  BY <1>6, <1>7, <1>8, <1>9, <1>10

(* A recorded result is returned: a success only under a live receipt. *)
LEMMA ReturnSteps ==
  ASSUME Inv, Replay \/ Final
  PROVE  Inv'
<1>1. UNCHANGED <<world, authorization, records, job, effects, history>>
  BY DEF Replay, Final
<1>2. at.pc \in {"replay", "final"}
  BY DEF Replay, Final, At
<1>3. PICK c, s, p :
        /\ Now(c, s, p) /\ Going(c, s, p) /\ StepFact(c, s)
        /\ at.call = c /\ at.step = s /\ at.pc = p /\ Subject = About(c, s)
  BY <1>2, InProgress
<1>4. CASE Throw \/ Refuse
  BY <1>1, <1>2, <1>3, <1>4, PlainEnds
<1>5. CASE Return(result[Subject]) /\ (result[Subject] = "succeeded" => ReceiptLive(Subject))
  <2>1. CASE result[Subject] = "succeeded"
    <3>1. Advance /\ About(c, s) \notin revoked /\ result[About(c, s)] = "succeeded"
      BY <1>3, <1>5, <2>1 DEF Return, ReceiptLive, GrantLive
    <3>2. StepsOf(c)[s].phase = TRUE
      BY <1>2, <1>3 DEF Going, PhasePoints, SavedPoints, RequestPoints
    <3> QED
      BY <1>1, <1>2, <1>3, <3>1, <3>2, PlainAdvances
  <2>2. CASE result[Subject] # "succeeded"
    <3>1. Throw \/ Refuse
      BY <1>5, <2>2 DEF Return
    <3> QED
      BY <1>4, <3>1
  <2> QED
    BY <2>1, <2>2
<1> QED
  BY <1>4, <1>5 DEF Replay, Final

(* The call in progress begins, begins again or waits. *)
LEMMA Places ==
  ASSUME Inv, NEW c \in Calls, NEW t, NEW n \in Points \ {"idle", "consume"},
         at' = [call |-> c, step |-> t, pc |-> n],
         t = 5 => at.call = c /\ at.step = 5,
         run' \in {"running", "waiting", "ended"}, (run' = "waiting") <=> (n = "wait_owner"),
         run = "ended" => run' = "ended",
         UNCHANGED <<outcome, world, authorization, records, job, effects, history>>,
         Going(c, t, n)
  PROVE  Inv'
<1>1. DataKept'
  BY DataUnchanged
<1>2. UNCHANGED <<outcome, cap, revoked, result, effects, barred, closed>>
  BY DEF world, authorization, records, history
<1>3. at'.call = c /\ at'.step = t /\ at'.pc = n /\ c # "none"
  BY CallsAssumption
<1>4. StepFact(c, t)
  BY StepFacts DEF Going
<1>5. CallTypes'
  <2>1. t \in 0 .. 5
    BY <1>4 DEF StepFact
  <2>2. at' \in [call : Calls \cup {"none"}, step : 0 .. 5, pc : Points]
    BY <2>1
  <2>3. at' # Idle
    BY <1>3 DEF Idle
  <2> QED
    BY <1>2, <1>3, <2>2, <2>3 DEF Inv, CallTypes
<1>6. Going(c, t, n)'
  BY DEF Going, records, authorization
<1>7. Progress'
  BY <1>3, <1>6 DEF Progress
<1>8. Stopped => Stopped'
  BY <1>2 DEF Stopped
<1>9. Barred' /\ Shown'
  BY <1>2, <1>8 DEF Inv, Barred, Shown
<1>10. ASSUME NEW d \in closed' PROVE outcome'[d] # "shown" /\ ClosedCall(d)'
  <2>1. outcome[d] # "shown" /\ ClosedCall(d)
    BY <1>2, <1>10 DEF Inv, Closed
  <2> QED
    BY <1>2, <1>3, <1>8, <2>1 DEF ClosedCall
<1>11. Closed'
  BY <1>10 DEF Closed
<1> QED
  BY <1>1, <1>5, <1>7, <1>9, <1>11 DEF Inv, DataKept

(* The call, the wait for the Owner, and the two ends of the wait. *)
LEMMA WaitSteps ==
  ASSUME Inv, (\E c \in Calls : Call(c)) \/ Suspend \/ Resume \/ Expire
  PROVE  Inv'
<1>1. UNCHANGED <<world, authorization, records, job, effects, history>>
  BY DEF Call, Suspend, Resume, Expire
<1>2. CASE \E c \in Calls : Call(c)
  <2>1. PICK c \in Calls : Call(c)
    BY <1>2
  <2>2. /\ at' = [call |-> c, step |-> 1, pc |-> "open"] /\ UNCHANGED <<run, outcome>>
        /\ run = "running" /\ outcome[c] = "none"
    BY <2>1 DEF Call
  <2>3. 1 \in 1 .. Len(StepsOf(c))
    BY FirstStep
  <2>4. Going(c, 1, "open")
    BY <2>2, <2>3 DEF Going, PhasePoints, SavedPoints, IssuePoints, RequestPoints
  <2> QED
    BY <1>1, <2>2, <2>4, Places DEF Points
<1>3. CASE Resume
  <2>1. at.pc = "wait_owner"
    BY <1>3 DEF Resume, Inv, CallTypes
  <2>2. PICK c, s, p : Now(c, s, p) /\ Going(c, s, p) /\ at.call = c
    BY <2>1, InProgress
  <2>3. at' = [call |-> c, step |-> 1, pc |-> "open"] /\ run' = "running" /\ outcome' = outcome
        /\ run = "waiting"
    BY <1>3, <2>2 DEF Resume, Now
  <2>4. c \in Calls
    BY <2>2 DEF Now
  <2>5. 1 \in 1 .. Len(StepsOf(c))
    BY <2>4, FirstStep
  <2>6. Going(c, 1, "open")
    BY <2>2, <2>5 DEF Going, PhasePoints, SavedPoints, IssuePoints, RequestPoints
  <2> QED
    BY <1>1, <2>3, <2>4, <2>6, Places DEF Points
<1>4. CASE Expire
  <2>1. at.pc = "wait_owner"
    BY <1>4 DEF Expire, Inv, CallTypes
  <2>2. PICK c, s, p : Now(c, s, p)
    BY <2>1, InProgress
  <2> QED
    BY <1>1, <1>4, <2>2, PlainEnds DEF Expire
<1>5. CASE Suspend
  <2>1. at.pc = "suspend"
    BY <1>5 DEF Suspend, At
  <2>2. PICK c, s, p : Now(c, s, p) /\ Going(c, s, p) /\ at.call = c /\ at.step = s
    BY <2>1, InProgress
  <2>3. CASE Throw
    BY <1>1, <2>2, <2>3, PlainEnds
  <2>4. CASE run = "running" /\ run' = "waiting" /\ GoTo("wait_owner") /\ outcome' = outcome
    <3>1. at' = [call |-> c, step |-> s, pc |-> "wait_owner"] /\ c \in Calls
      BY <2>2, <2>4 DEF GoTo, Now
    <3>2. Going(c, s, "wait_owner")
      BY <2>2 DEF Going, PhasePoints, SavedPoints, IssuePoints, RequestPoints
    <3> QED
      BY <1>1, <2>2, <2>4, <3>1, <3>2, Places DEF Points
  <2> QED
    BY <1>5, <2>3, <2>4 DEF Suspend
<1> QED
  BY <1>2, <1>3, <1>4, <1>5

(* The context is frozen. *)
LEMMA OpenSteps ==
  ASSUME Inv, Open
  PROVE  Inv'
<1>1. at.pc = "open"
  BY DEF Open, At
<1>2. PICK c, s, p :
        /\ Now(c, s, p) /\ Going(c, s, p) /\ StepFact(c, s)
        /\ at.call = c /\ at.step = s /\ at.pc = p
  BY <1>1, InProgress
<1>3. UNCHANGED <<world, authorization, handle, saved, intent, receipt, result, job, effects, history>>
  BY DEF Open
<1>4. CASE Throw /\ context' = context
  BY <1>2, <1>3, <1>4, PlainEnds DEF records
<1>5. CASE /\ context' = [context EXCEPT ![c] = IF @ = NoContext THEN [fence |-> fence, dir |-> dir]
                                                ELSE @]
           /\ \/ GoTo(PcOf(c, 1)) /\ UNCHANGED <<run, outcome>>
              \/ Refuse
  <2>1. context' \in [Calls -> [fence : Nat, dir : Nat]]
    <3>1. [fence |-> fence, dir |-> dir] \in [fence : Nat, dir : Nat]
      BY DEF Inv, WorldTypes
    <3>2. context \in [Calls -> [fence : Nat, dir : Nat]]
      BY DEF Inv, RecordTypes
    <3> QED
      BY <1>5, <3>1, <3>2
  <2>2. UNCHANGED <<fence, workerUp, cap, dir, late, over, troubles, approval, used, revoked, handle,
                    saved, intent, receipt, result, job, effects, barred, closed>>
    BY <1>3 DEF world, authorization, history
  <2>3. DataKept'
    BY <2>1, <2>2 DEF Inv, DataKept, WorldTypes, RecordTypes, ResultTypes, Consents, Acts
  <2>4. CASE GoTo(PcOf(c, 1)) /\ UNCHANGED <<run, outcome>>
    <3>1. PICK n \in {"active", "check"} : n = PcOf(c, 1)
      BY DEF PcOf
    <3>2. Going(c, s, n)'
      BY <1>2, <2>2, <2>4, <3>1 DEF Going, PhasePoints, SavedPoints, IssuePoints, RequestPoints
    <3>3. n \in Points \ {"idle", "wait_owner"} /\ n # "consume" /\ at' = [at EXCEPT !.pc = n]
      BY <2>4, <3>1 DEF Points, GoTo
    <3> QED
      BY <1>1, <1>2, <2>2, <2>3, <2>4, <3>2, <3>3, Goes
  <2>5. CASE Refuse
    <3>1. at' = Idle /\ outcome' = [outcome EXCEPT ![c] = "failed"] /\ run' = run
      BY <1>2, <2>5 DEF Refuse, End
    <3>2. run' \in {"running", "ended"}
      BY <1>1, <3>1 DEF Inv, CallTypes
    <3> QED
      BY <1>2, <2>2, <2>3, <3>1, <3>2, Ends
  <2> QED
    BY <1>5, <2>4, <2>5
<1> QED
  BY <1>2, <1>4, <1>5 DEF Open

(* The grant is used, or the Owner is asked for one. *)
LEMMA GrantSteps ==
  ASSUME Inv, Consume \/ Ask
  PROVE  Inv'
<1>1. at.pc \in {"consume", "ask"}
  BY DEF Consume, Ask, At
<1>2. PICK c, s, p :
        /\ Now(c, s, p) /\ Going(c, s, p) /\ StepFact(c, s)
        /\ at.call = c /\ at.step = s /\ at.pc = p
        /\ Subject = About(c, s) /\ Step = StepsOf(c)[s]
  BY <1>1, InProgress
<1>3. About(c, s) \in Intents
  BY <1>2 DEF StepFact
<1>4. ASSUME Refuse, UNCHANGED <<world, authorization, records, job, effects, history>> PROVE Inv'
  BY <1>1, <1>2, <1>4, PlainEnds
<1>5. CASE Consume
  <2>1. UNCHANGED <<world, approval, revoked, records, job, effects, history>> /\ at.pc = "consume"
    BY <1>5 DEF Consume, At
  <2>2. CASE Refuse /\ used' = used
    BY <1>4, <2>1, <2>2 DEF authorization
  <2>3. CASE (Subject \in used \/ GrantLive(Subject)) /\ used' = used \cup {Subject} /\ Permitted
    <3>1. approval[Subject] = "approved"
      BY <2>3 DEF Inv, Consents, GrantLive
    <3>2. UNCHANGED <<fence, workerUp, cap, dir, late, over, troubles, approval, revoked, context,
                      handle, saved, intent, receipt, result, job, effects, barred, closed>>
      BY <2>1 DEF world, records, history
    <3>3. used' \subseteq Intents /\ used \subseteq used' /\ About(c, s) \in used'
      BY <1>2, <1>3, <2>3 DEF Inv, RecordTypes
    <3>4. Consents'
      BY <2>3, <3>1, <3>2 DEF Inv, Consents
    <3>5. DataKept'
      BY <3>2, <3>3, <3>4 DEF Inv, DataKept, WorldTypes, RecordTypes, ResultTypes, Acts
    <3>6. CASE StepsOf(c)[s].phase = TRUE
      <4>1. GoTo("load") /\ UNCHANGED <<run, outcome>>
        BY <1>2, <2>3, <3>6 DEF Permitted
      <4>2. Going(c, s, "load")'
        BY <1>2, <3>2, <3>3, <3>6, <4>1 DEF Going, PhasePoints, SavedPoints, IssuePoints, RequestPoints
      <4>3. "load" \in Points \ {"idle", "wait_owner"} /\ at' = [at EXCEPT !.pc = "load"]
        BY <4>1 DEF Points, GoTo
      <4> QED
        BY <1>1, <1>2, <3>2, <3>5, <4>1, <4>2, <4>3, Goes
    <3>7. CASE StepsOf(c)[s].phase = FALSE
      <4>1. Advance
        BY <1>2, <2>3, <3>7 DEF Permitted
      <4> QED
        BY <1>2, <2>1, <3>2, <3>3, <3>5, <3>7, <4>1, Advances
    <3> QED
      BY <1>2, <3>6, <3>7 DEF StepFact
  <2> QED
    BY <1>5, <2>2, <2>3 DEF Consume
<1>6. CASE Ask
  <2>1. UNCHANGED <<world, used, revoked, records, job, effects, history>>
    BY <1>6 DEF Ask
  <2>2. CASE Refuse /\ approval' = approval
    BY <1>4, <2>1, <2>2 DEF authorization
  <2>3. CASE /\ approval[Subject] \in {"none", "pending"}
             /\ approval' = [approval EXCEPT ![Subject] = "pending"]
             /\ GoTo("suspend") /\ UNCHANGED <<run, outcome>>
    <3>1. UNCHANGED <<fence, workerUp, cap, dir, late, over, troubles, used, revoked, context,
                      handle, saved, intent, receipt, result, job, effects, barred, closed>>
      BY <2>1 DEF world, records, history
    <3>2. Subject \notin used
      BY <2>3 DEF Inv, Consents
    <3>3. approval' \in [Intents -> {"none", "pending", "approved", "denied", "expired"}]
      BY <2>3 DEF Inv, RecordTypes
    <3>4. Consents'
      <4>1. \A i \in used : approval'[i] = approval[i]
        BY <2>3, <3>2 DEF Inv, RecordTypes
      <4> QED
        BY <3>1, <4>1 DEF Inv, Consents
    <3>5. DataKept'
      BY <3>1, <3>3, <3>4 DEF Inv, DataKept, WorldTypes, RecordTypes, ResultTypes, Acts
    <3>6. Going(c, s, "suspend")'
      BY <1>2, <2>3, <3>1 DEF Going, PhasePoints, SavedPoints, IssuePoints, RequestPoints
    <3>7. "suspend" \in Points \ {"idle", "wait_owner"} /\ at' = [at EXCEPT !.pc = "suspend"]
      BY <2>3 DEF Points, GoTo
    <3> QED
      BY <1>1, <1>2, <2>3, <3>1, <3>5, <3>6, <3>7, Goes
  <2> QED
    BY <1>6, <2>2, <2>3 DEF Ask
<1> QED
  BY <1>5, <1>6

(* A handle is made and saved, the request is recorded, the handle is used  *)
(* up for a receipt, and the work is sent.                                  *)
LEMMA RequestSteps ==
  ASSUME Inv, Create \/ Keep \/ Record \/ Admit \/ Send
  PROVE  Inv'
<1>1. at.pc \in {"create", "keep", "record", "admit", "send"}
  BY DEF Create, Keep, Record, Admit, Send, At
<1>2. PICK c, s, p :
        /\ Now(c, s, p) /\ Going(c, s, p) /\ StepFact(c, s)
        /\ at.call = c /\ at.step = s /\ at.pc = p /\ Subject = About(c, s)
  BY <1>1, InProgress
<1>3. PICK k : k = About(c, s)
  OBVIOUS
<1>4. k \in Phases /\ k \in Intents /\ k \in used /\ k[1] = c
  BY <1>1, <1>2, <1>3 DEF Going, StepFact, PhasePoints, SavedPoints, IssuePoints, RequestPoints
<1>5. UNCHANGED <<run, world, authorization, context, result, outcome, effects, history>>
  BY DEF Create, Keep, Record, Admit, Send, records
<1>6. UNCHANGED <<run, fence, workerUp, cap, dir, late, over, troubles, approval, used, revoked,
                  context, result, outcome, effects, barred, closed>>
  BY <1>5 DEF world, authorization, history
<1>7. ASSUME NEW n \in {"keep", "enter", "admit", "send", "giveup", "wait_worker"}, GoTo(n),
             DataKept', Going(c, s, n)'
      PROVE  Inv'
  <2>1. n \in Points \ {"idle", "wait_owner"} /\ at' = [at EXCEPT !.pc = n] /\ n # "consume"
    BY <1>7 DEF Points, GoTo
  <2> QED
    BY <1>1, <1>2, <1>6, <1>7, <2>1, Goes
<1>8. CASE Create
  <2>1. /\ p = "create" /\ handle' = [handle EXCEPT ![k] = "active"] /\ GoTo("keep")
        /\ UNCHANGED <<saved, intent, receipt, job>>
    BY <1>2, <1>3, <1>8 DEF Create, At
  <2>2. k \notin saved /\ k \notin receipt
    BY <1>2, <1>3, <2>1 DEF Going, IssuePoints, Inv, RecordTypes
  <2>3. /\ handle' \in [Phases -> {"none", "active", "consumed", "revoked"}]
        /\ \A l \in receipt : handle'[l] = "consumed"
    BY <1>4, <2>1, <2>2 DEF Inv, RecordTypes
  <2>4. DataKept'
    BY <1>6, <2>1, <2>3
    DEF Inv, DataKept, WorldTypes, RecordTypes, ResultTypes, Consents, Acts
  <2>5. Going(c, s, "keep")'
    BY <1>2, <1>6, <2>1 DEF Going, PhasePoints, SavedPoints, IssuePoints, RequestPoints
  <2> QED
    BY <1>7, <2>1, <2>4, <2>5
<1>9. CASE Keep
  <2>1. /\ p = "keep" /\ saved' = saved \cup {k} /\ GoTo("enter")
        /\ UNCHANGED <<handle, intent, receipt, job>>
    BY <1>2, <1>3, <1>9 DEF Keep, At
  <2>2. DataKept'
    BY <1>4, <1>6, <2>1
    DEF Inv, DataKept, WorldTypes, RecordTypes, ResultTypes, Consents, Acts
  <2>3. Going(c, s, "enter")'
    BY <1>2, <1>3, <1>6, <2>1 DEF Going, PhasePoints, SavedPoints, IssuePoints, RequestPoints
  <2> QED
    BY <1>7, <2>1, <2>2, <2>3
<1>10. CASE Record
  <2>1. /\ p = "record" /\ intent' = intent \cup {k} /\ GoTo("admit")
        /\ UNCHANGED <<handle, saved, receipt, job>>
    BY <1>2, <1>3, <1>10 DEF Record, At
  <2>2. k \in saved
    BY <1>2, <1>3, <2>1 DEF Going, SavedPoints
  <2>3. DataKept'
    BY <1>6, <2>1, <2>2
    DEF Inv, DataKept, WorldTypes, RecordTypes, ResultTypes, Consents, Acts
  <2>4. Going(c, s, "admit")'
    BY <1>2, <1>3, <1>6, <2>1 DEF Going, PhasePoints, SavedPoints, IssuePoints, RequestPoints
  <2> QED
    BY <1>7, <2>1, <2>3, <2>4
<1>11. CASE Admit
  <2>1. p = "admit" /\ UNCHANGED <<saved, intent, job>>
    BY <1>2, <1>11 DEF Admit, At
  <2>2. k \in intent
    BY <1>2, <1>3, <2>1 DEF Going, RequestPoints
  <2>3. CASE /\ handle[k] = "active" /\ receipt' = receipt \cup {k}
             /\ handle' = [handle EXCEPT ![k] = "consumed"] /\ GoTo("send")
    <3>1. job[k] = "none"
      BY <1>4, <2>3 DEF Inv, Acts, RecordTypes
    <3>2. k[2] = "read" => <<c, "disclose">> \in used
      <4>1. k[2] = "read" => c \notin Coding /\ StepsOf(c)[s].phase = TRUE /\ s # 1
        BY <1>2, <1>3, <2>1
        DEF StepFact, Going, PhasePoints, SavedPoints, RequestPoints
      <4>2. k[2] = "read" => s = 4
        BY <1>2, <4>1 DEF StepFact
      <4> QED
        BY <1>2, <4>1, <4>2 DEF Going
    <3>3. Consents'
      BY <1>4, <1>6, <2>3, <3>2 DEF Inv, Consents
    <3>4. /\ handle' \in [Phases -> {"none", "active", "consumed", "revoked"}]
          /\ receipt' \subseteq intent /\ \A l \in receipt' : handle'[l] = "consumed"
      BY <1>4, <2>2, <2>3 DEF Inv, RecordTypes
    <3>5. Acts'
      BY <1>6, <2>1, <2>3 DEF Inv, Acts
    <3>6. DataKept'
      BY <1>6, <2>1, <3>3, <3>4, <3>5 DEF Inv, DataKept, WorldTypes, RecordTypes, ResultTypes
    <3>7. Going(c, s, "send")'
      BY <1>2, <1>3, <1>6, <2>1, <2>3, <3>1
      DEF Going, PhasePoints, SavedPoints, IssuePoints, RequestPoints
    <3> QED
      BY <1>7, <2>3, <3>6, <3>7
  <2>4. CASE GoTo("giveup") /\ UNCHANGED <<receipt, handle>>
    <3>1. DataKept'
      BY <1>6, <2>1, <2>4
      DEF Inv, DataKept, WorldTypes, RecordTypes, ResultTypes, Consents, Acts
    <3>2. Going(c, s, "giveup")'
      BY <1>2, <1>6, <2>1, <2>4 DEF Going, PhasePoints, SavedPoints, IssuePoints, RequestPoints
    <3> QED
      BY <1>7, <2>4, <3>1, <3>2
  <2> QED
    BY <1>2, <1>3, <1>11, <2>3, <2>4 DEF Admit
<1>12. CASE Send
  <2>1. p = "send" /\ UNCHANGED <<handle, saved, intent, receipt>>
    BY <1>2, <1>12 DEF Send, At, records
  <2>2. k \in receipt /\ job[k] = "none"
    BY <1>2, <1>3, <2>1 DEF Going
  <2>3. CASE job' = [job EXCEPT ![k] = "sent"] /\ GoTo("wait_worker")
    <3>1. job' \in [Phases -> {"none", "sent", "working", "lost"} \cup Ended]
      BY <2>3 DEF Inv, ResultTypes
    <3>2. Acts'
      <4> SUFFICES ASSUME NEW l \in Phases
                   PROVE  /\ job'[l] # "none" => l \in receipt
                          /\ effects[l] \in {0, 1}
                          /\ effects[l] = 1 => job'[l] \notin {"none", "sent"}
        BY <1>6, <2>1 DEF Acts
      <4>1. CASE l = k
        BY <1>4, <2>2, <4>1 DEF Inv, Acts
      <4>2. CASE l # k
        BY <2>3, <4>2 DEF Inv, Acts, ResultTypes
      <4> QED
        BY <4>1, <4>2
    <3>3. DataKept'
      BY <1>6, <2>1, <3>1, <3>2
      DEF Inv, DataKept, WorldTypes, RecordTypes, ResultTypes, Consents
    <3>4. Going(c, s, "wait_worker")'
      BY <1>2, <1>6, <2>1 DEF Going, PhasePoints, SavedPoints, IssuePoints, RequestPoints
    <3> QED
      BY <1>7, <2>3, <3>3, <3>4
  <2>4. CASE GoTo("giveup") /\ job' = job
    <3>1. DataKept'
      BY <1>6, <2>1, <2>4
      DEF Inv, DataKept, WorldTypes, RecordTypes, ResultTypes, Consents, Acts
    <3>2. Going(c, s, "giveup")'
      BY <1>2, <1>6, <2>1, <2>4 DEF Going, PhasePoints, SavedPoints, IssuePoints, RequestPoints
    <3> QED
      BY <1>7, <2>4, <3>1, <3>2
  <2> QED
    BY <1>2, <1>3, <1>12, <2>3, <2>4 DEF Send
<1> QED
  BY <1>8, <1>9, <1>10, <1>11, <1>12

(* A result is recorded under a valid handle only, so never for a Run that  *)
(* has ended or a capability that was disabled.                             *)
LEMMA SettleSteps ==
  ASSUME Inv, Settle
  PROVE  Inv'
<1>1. at.pc = "settle"
  BY DEF Settle, At
<1>2. PICK c, s, p :
        /\ Now(c, s, p) /\ Going(c, s, p) /\ StepFact(c, s)
        /\ at.call = c /\ at.step = s /\ at.pc = p /\ Subject = About(c, s)
  BY <1>1, InProgress
<1>3. PICK k : k = About(c, s)
  OBVIOUS
<1>4. k \in Phases /\ k[1] = c /\ StepsOf(c)[s].phase = TRUE
  BY <1>1, <1>2, <1>3 DEF Going, StepFact, PhasePoints, SavedPoints, RequestPoints
<1>5. UNCHANGED <<run, world, authorization, context, handle, saved, intent, receipt, job, outcome,
                  effects, history>>
  BY DEF Settle
<1>6. UNCHANGED <<run, fence, workerUp, cap, dir, late, over, troubles, approval, used, revoked,
                  context, handle, saved, intent, receipt, job, outcome, effects, barred, closed>>
  BY <1>5 DEF world, authorization, history
<1>7. CASE GoTo("giveup") /\ result' = result
  <2>1. Going(c, s, "giveup")
    BY <1>1, <1>2 DEF Going, PhasePoints, SavedPoints, IssuePoints, RequestPoints
  <2> QED
    BY <1>1, <1>2, <1>5, <1>7, <2>1, PlainGoes DEF records, Points
<1>8. CASE /\ HandleValid(k) /\ GoTo("final")
           /\ result' = [result EXCEPT ![k] = IF job[k] = "ok" THEN "succeeded" ELSE job[k]]
  <2>1. ~Stopped /\ UNCHANGED Stopped
    BY <1>6, <1>8 DEF HandleValid, CapabilityActive, Stopped
  <2>2. \A l \in Phases : l # k => result'[l] = result[l]
    BY <1>8 DEF Inv, ResultTypes
  <2>3. job[k] \in Ended
    BY <1>1, <1>2, <1>3 DEF Going
  <2>4. result' \in [Phases -> {"none", "succeeded", "failed", "unknown"}]
    BY <1>8, <2>3 DEF Inv, ResultTypes, Ended
  <2>5. DataKept'
    BY <1>6, <2>4 DEF Inv, DataKept, WorldTypes, RecordTypes, ResultTypes, Consents, Acts
  <2>6. at' = [call |-> c, step |-> s, pc |-> "final"]
    BY <1>2, <1>8 DEF GoTo, Now
  <2>7. at'.call = c /\ at'.step = s /\ at'.pc = "final" /\ c \in Calls /\ c # "none"
    BY <1>2, <2>6, CallsAssumption DEF Now
  <2>8. CallTypes'
    <3>1. s \in 0 .. 5
      BY <1>2 DEF StepFact
    <3>2. at' \in [call : Calls \cup {"none"}, step : 0 .. 5, pc : Points]
      BY <2>6, <2>7, <3>1 DEF Points
    <3>3. at' # Idle
      BY <2>7 DEF Idle
    <3> QED
      BY <1>1, <1>6, <2>7, <3>2, <3>3 DEF Inv, CallTypes
  <2>9. Progress'
    <3>1. c \notin Coding => s # 5
      BY <1>2, <1>4 DEF StepFact
    <3>2. Going(c, s, "final")'
      BY <1>1, <1>2, <1>6, <3>1 DEF Going, PhasePoints, SavedPoints, IssuePoints, RequestPoints
    <3> QED
      BY <2>7, <3>2 DEF Progress
  <2>10. Barred'
    BY <1>6 DEF Inv, Barred, Stopped
  <2>11. Shown'
    <3> SUFFICES ASSUME NEW d \in Calls, outcome'[d] = "shown"
                 PROVE  result'[LastPhase(d)] = "succeeded"
      BY DEF Shown
    <3>1. d # c
      BY <1>2, <1>6 DEF Going
    <3>2. LastPhase(d) \in Phases /\ LastPhase(d) # k
      BY <1>4, <3>1, LastPhases
    <3> QED
      BY <1>6, <2>2, <3>2 DEF Inv, Shown
  <2>12. ASSUME NEW d \in closed' PROVE outcome'[d] # "shown" /\ ClosedCall(d)'
    <3>1. outcome[d] # "shown" /\ ClosedCall(d)
      BY <1>6, <2>12 DEF Inv, Closed
    <3> QED
      BY <1>2, <1>6, <2>1, <2>7, <3>1 DEF ClosedCall
  <2>13. Closed'
    BY <2>12 DEF Closed
  <2> QED
    BY <2>5, <2>8, <2>9, <2>10, <2>11, <2>13 DEF Inv, DataKept
<1> QED
  BY <1>2, <1>3, <1>7, <1>8 DEF Settle

(* What went wrong after the request was recorded leaves no success. *)
LEMMA GiveUpSteps ==
  ASSUME Inv, GiveUp
  PROVE  Inv'
<1>1. at.pc = "giveup"
  BY DEF GiveUp, At
<1>2. PICK c, s, p :
        /\ Now(c, s, p) /\ Going(c, s, p) /\ StepFact(c, s)
        /\ at.call = c /\ at.pc = p /\ Subject = About(c, s)
  BY <1>1, InProgress
<1>3. PICK k : k = About(c, s)
  OBVIOUS
<1>4. k \in Phases /\ k[1] = c
  BY <1>1, <1>2, <1>3 DEF Going, StepFact, PhasePoints, SavedPoints, RequestPoints
<1>5. UNCHANGED <<fence, workerUp, cap, dir, late, over, troubles, approval, used, revoked, context,
                  handle, saved, intent, receipt, job, effects, barred, closed>>
  BY DEF GiveUp, world, authorization, history
<1>6. result' = result \/ result' = [result EXCEPT ![k] = "unknown"]
  BY <1>2, <1>3 DEF GiveUp
<1>7. result' \in [Phases -> {"none", "succeeded", "failed", "unknown"}]
  BY <1>6 DEF Inv, ResultTypes
<1>8. \A l \in Phases : result'[l] = result[l] \/ (l = k /\ result'[l] = "unknown")
  BY <1>6 DEF Inv, ResultTypes
<1>9. DataKept'
  BY <1>5, <1>7 DEF Inv, DataKept, WorldTypes, RecordTypes, ResultTypes, Consents, Acts
<1>10. at' = Idle /\ outcome' = [outcome EXCEPT ![c] = "unknown"] /\ run' = "ended"
  BY <1>2 DEF GiveUp, Throw, End
<1>11. /\ \A l \in Phases : l[1] # c => result'[l] = result[l]
       /\ \A l \in Phases : result'[l] = "succeeded" => result[l] = "succeeded"
  BY <1>4, <1>8
<1> QED
  BY <1>2, <1>5, <1>9, <1>10, <1>11, Ends

-----------------------------------------------------------------------------
(* The worker, and the death of the worker or of the service *)

\* Jobs that were sent or worked on change; a phase acted on is being worked on.
JobsGoOn ==
  /\ UNCHANGED <<cap, dir, late, over, authorization, records, history>>
  /\ fence' \in Nat /\ workerUp' \in BOOLEAN /\ troubles' \in 0 .. MaxTroubles
  /\ job' \in [Phases -> {"none", "sent", "working", "lost"} \cup Ended]
  /\ effects' \in [Phases -> Nat]
  /\ \A l \in Phases :
       job'[l] = job[l] \/ (job[l] \in {"sent", "working"} /\ job'[l] \notin {"none", "sent"})
  /\ \A l \in Phases :
       \/ effects'[l] = effects[l]
       \/ effects'[l] = 1 /\ job'[l] = "working" /\ l \notin barred

(* Such a step keeps the data. *)
LEMMA JobData ==
  ASSUME Inv, JobsGoOn
  PROVE  DataKept'
<1>1. UNCHANGED <<cap, dir, late, over, approval, used, revoked, context, handle, saved, intent,
                  receipt, result, barred, closed>>
  BY DEF JobsGoOn, authorization, records, history
<1>2. WorldTypes' /\ RecordTypes' /\ ResultTypes' /\ Consents'
  BY <1>1 DEF Inv, JobsGoOn, WorldTypes, RecordTypes, ResultTypes, Consents
<1>3. Acts'
  <2> SUFFICES ASSUME NEW l \in Phases
               PROVE  /\ job'[l] # "none" => l \in receipt'
                      /\ effects'[l] \in {0, 1}
                      /\ effects'[l] = 1 => job'[l] \notin {"none", "sent"}
    BY DEF Acts
  <2>1. /\ job[l] # "none" => l \in receipt
        /\ effects[l] \in {0, 1}
        /\ effects[l] = 1 => job[l] \notin {"none", "sent"}
    BY DEF Inv, Acts
  <2>2. job'[l] = job[l] \/ (job[l] \in {"sent", "working"} /\ job'[l] \notin {"none", "sent"})
    BY DEF JobsGoOn
  <2>3. effects'[l] = effects[l] \/ (effects'[l] = 1 /\ job'[l] = "working")
    BY DEF JobsGoOn
  <2> QED
    BY <1>1, <2>1, <2>2, <2>3
<1> QED
  BY <1>2, <1>3 DEF DataKept

(* Such a step, with the call in progress where it is, keeps everything. *)
LEMMA JobSteps ==
  ASSUME Inv, JobsGoOn, UNCHANGED <<at, outcome>>,
         run' = run \/ (run' = "ended" /\ run # "waiting")
  PROVE  Inv'
<1>1. UNCHANGED <<cap, used, revoked, saved, intent, receipt, result, barred, closed>>
  BY DEF JobsGoOn, authorization, records, history
<1>2. DataKept'
  BY JobData
<1>3. Stopped => Stopped'
  BY <1>1 DEF Stopped
<1>4. Barred'
  <2> SUFFICES ASSUME NEW l \in barred PROVE effects'[l] = 0 /\ (l \in revoked \/ Stopped')
    BY <1>1 DEF Barred
  <2>1. l \in Phases /\ effects[l] = 0 /\ (l \in revoked \/ Stopped)
    BY DEF Inv, Barred, ResultTypes
  <2> QED
    BY <1>3, <2>1 DEF JobsGoOn
<1>5. Closed'
  BY <1>1, <1>3 DEF Inv, Closed, ClosedCall
<1>6. \A k \in Phases : job[k] \in Ended \cup {"none"} => job'[k] = job[k]
  BY DEF JobsGoOn, Ended
<1> QED
  BY <1>1, <1>2, <1>4, <1>5, <1>6, Stays

(* A fault is counted within its bound. *)
LEMMA TroubleType ==
  ASSUME Inv, Trouble
  PROVE  troubles' \in 0 .. MaxTroubles
BY BoundsAssumption DEF Inv, WorldTypes, Trouble

(* The steps of the worker. *)
LEMMA WorkerSteps ==
  ASSUME Inv, Worker
  PROVE  Inv'
<1>1. PICK k \in Phases : Work(k) \/ Decline(k) \/ Finish(k) \/ WorkFails(k)
  BY DEF Worker
<1>2. UNCHANGED <<run, fence, workerUp, cap, dir, late, over, authorization, records, at, outcome,
                  history>>
  BY <1>1 DEF Work, Decline, Finish, WorkFails, world
<1>3. fence' \in Nat /\ workerUp' \in BOOLEAN
  BY <1>2 DEF Inv, WorldTypes
<1>4. troubles' \in 0 .. MaxTroubles
  <2>1. troubles' = troubles \/ Trouble
    BY <1>1 DEF Work, Decline, Finish, WorkFails, world
  <2>2. troubles \in 0 .. MaxTroubles
    BY DEF Inv, WorldTypes
  <2> QED
    BY <2>1, <2>2, TroubleType
<1>5. PICK r \in {"working"} \cup Ended :
        job' = [job EXCEPT ![k] = r] /\ job[k] \in {"sent", "working"} /\ (Work(k) => r = "working")
  <2>1. CASE Work(k)
    BY <2>1 DEF Work
  <2>2. CASE Decline(k) /\ ~Work(k)
    BY <2>2 DEF Decline, Ended
  <2>3. CASE Finish(k) /\ ~Work(k)
    BY <2>3 DEF Finish, Ended
  <2>4. CASE WorkFails(k) /\ ~Work(k)
    BY <2>4 DEF WorkFails, Ended
  <2> QED
    BY <1>1, <2>1, <2>2, <2>3, <2>4
<1>6. /\ job' \in [Phases -> {"none", "sent", "working", "lost"} \cup Ended]
      /\ \A l \in Phases : job'[l] = IF l = k THEN r ELSE job[l]
  BY <1>5 DEF Inv, ResultTypes
<1>7. r \notin {"none", "sent"}
  BY <1>5 DEF Ended
<1>8. CASE effects' = effects
  <2>1. JobsGoOn
    BY <1>2, <1>3, <1>4, <1>5, <1>6, <1>7, <1>8 DEF JobsGoOn, Inv, ResultTypes
  <2> QED
    BY <1>2, <2>1, JobSteps
<1>9. CASE Work(k)
  <2>1. job[k] = "sent" /\ ReceiptLive(k) /\ effects' = [effects EXCEPT ![k] = @ + 1]
    BY <1>9 DEF Work
  <2>2. effects[k] = 0 /\ effects \in [Phases -> Nat]
    BY <2>1 DEF Inv, Acts, ResultTypes
  <2>3. k \notin barred
    BY <2>1 DEF Inv, Barred, Stopped, ReceiptLive, GrantLive, HandleValid, CapabilityActive
  <2>4. /\ effects' \in [Phases -> Nat]
        /\ \A l \in Phases : effects'[l] = IF l = k THEN 1 ELSE effects[l]
    BY <2>1, <2>2
  <2>5. JobsGoOn
    BY <1>2, <1>3, <1>4, <1>5, <1>6, <1>7, <1>9, <2>3, <2>4 DEF JobsGoOn
  <2> QED
    BY <1>2, <2>5, JobSteps
<1> QED
  BY <1>1, <1>8, <1>9 DEF Decline, Finish, WorkFails

(* The worker dies, or the service and its worker are started again. *)
LEMMA DeathSteps ==
  ASSUME Inv, WorkerDies \/ Restart
  PROVE  Inv'
<1>1. /\ UNCHANGED <<cap, dir, late, over, authorization, records, effects, history>>
      /\ Trouble
      /\ job' = [k \in Phases |-> IF job[k] \in {"sent", "working"} THEN "lost" ELSE job[k]]
  BY DEF WorkerDies, Restart
<1>2. fence' \in Nat /\ workerUp' \in BOOLEAN
  <2>1. fence \in Nat
    BY DEF Inv, WorldTypes
  <2>2. CASE WorkerDies
    BY <2>1, <2>2 DEF WorkerDies
  <2>3. CASE Restart
    BY <2>1, <2>3 DEF Restart
  <2> QED
    BY <2>2, <2>3
<1>3. troubles' \in 0 .. MaxTroubles
  BY <1>1, TroubleType
<1>4. /\ job' \in [Phases -> {"none", "sent", "working", "lost"} \cup Ended]
      /\ \A l \in Phases :
           job'[l] = job[l] \/ (job[l] \in {"sent", "working"} /\ job'[l] \notin {"none", "sent"})
  BY <1>1 DEF Inv, ResultTypes
<1>5. JobsGoOn
  BY <1>1, <1>2, <1>3, <1>4 DEF JobsGoOn, Inv, ResultTypes
<1>6. CASE UNCHANGED <<run, at, outcome>>
  BY <1>5, <1>6, JobSteps
<1>7. CASE /\ run # "waiting" /\ run' = "ended" /\ at' = Idle
           /\ outcome' = [c \in Calls |-> IF c = at.call THEN "unknown" ELSE outcome[c]]
  <2>1. CASE at.call = "none"
    <3>1. at' = at
      BY <1>7, <2>1 DEF Inv, CallTypes
    <3>2. outcome' = outcome
      BY <1>7, <2>1, CallsAssumption DEF Inv, CallTypes
    <3> QED
      BY <1>5, <1>7, <3>1, <3>2, JobSteps
  <2>2. CASE at.call # "none"
    <3>1. at.pc # "idle"
      BY <2>2 DEF Inv, Progress, Going
    <3>2. PICK c, s, p : Now(c, s, p) /\ at.call = c
      BY <3>1, InProgress
    <3>3. outcome' = [outcome EXCEPT ![c] = "unknown"]
      BY <1>7, <3>2 DEF Inv, CallTypes
    <3>4. DataKept'
      BY <1>5, JobData
    <3>5. UNCHANGED <<cap, revoked, effects, barred, closed, result>>
      BY <1>1 DEF authorization, records, history
    <3> QED
      BY <1>7, <3>2, <3>3, <3>4, <3>5, Ends
  <2> QED
    BY <2>1, <2>2
<1> QED
  BY <1>6, <1>7 DEF WorkerDies, Restart

-----------------------------------------------------------------------------
(* Time and the Owner *)

(* A step beside the calls that withdraws nothing. *)
LEMMA Aside ==
  ASSUME Inv,
         UNCHANGED <<run, at, outcome, used, revoked, saved, intent, receipt, result, job, effects,
                     history>>,
         cap.life = "disabled" => cap'.life = "disabled",
         WorldTypes', RecordTypes', Consents'
  PROVE  Inv'
<1>1. UNCHANGED <<barred, closed>>
  BY DEF history
<1>2. ResultTypes' /\ Acts'
  BY <1>1 DEF Inv, ResultTypes, Acts
<1>3. Stopped => Stopped'
  BY DEF Stopped
<1>4. Barred' /\ Closed'
  BY <1>1, <1>3 DEF Inv, Barred, Closed, ClosedCall
<1> QED
  BY <1>2, <1>4, Stays DEF DataKept

(* A deadline passes. *)
LEMMA TimeSteps ==
  ASSUME Inv, Time
  PROVE  Inv'
<1>1. UNCHANGED <<run, fence, workerUp, cap, dir, troubles, authorization, records, job, at, outcome,
                  effects, history>>
  BY DEF Time, CallExpires, RequestExpires
<1>2. UNCHANGED <<approval, used, revoked, context, handle, saved, intent, receipt, result>>
  BY <1>1 DEF authorization, records
<1>3. late' \subseteq Calls /\ over' \subseteq intent
  BY DEF Time, CallExpires, RequestExpires, Inv, WorldTypes, RecordTypes
<1>4. WorldTypes' /\ RecordTypes' /\ Consents'
  BY <1>1, <1>2, <1>3 DEF Inv, WorldTypes, RecordTypes, Consents
<1> QED
  BY <1>1, <1>2, <1>4, Aside

(* The Owner answers a pending request: no grant in use depends on it. *)
LEMMA RespondSteps ==
  ASSUME Inv, NEW i \in Intents, Respond(i)
  PROVE  Inv'
<1>1. UNCHANGED <<run, world, used, revoked, records, job, at, outcome, effects, history>>
  BY DEF Respond
<1>2. PICK a \in {"approved", "denied", "expired"} : approval' = [approval EXCEPT ![i] = a]
  BY DEF Respond
<1>3. approval' \in [Intents -> {"none", "pending", "approved", "denied", "expired"}]
  BY <1>2 DEF Inv, RecordTypes
<1>4. Consents'
  <2>1. i \notin used
    BY DEF Respond, Inv, Consents
  <2>2. \A j \in used : approval'[j] = "approved"
    BY <1>2, <2>1 DEF Inv, Consents, RecordTypes
  <2> QED
    BY <1>1, <2>2 DEF Inv, Consents, records
<1>5. WorldTypes' /\ RecordTypes'
  BY <1>1, <1>3 DEF Inv, WorldTypes, RecordTypes, world, records
<1> QED
  BY <1>1, <1>4, <1>5, Aside DEF world, records

(* The handles that are revoked with a version have no receipt. *)
LEMMA HandlesRevoked ==
  ASSUME Inv, RevokeHandles
  PROVE  /\ handle' \in [Phases -> {"none", "active", "consumed", "revoked"}]
         /\ \A k \in receipt : handle'[k] = "consumed"
<1>1. receipt \subseteq Phases
  BY DEF Inv, RecordTypes
<1> QED
  BY <1>1 DEF Inv, RecordTypes, RevokeHandles

(* The capability is updated or the directory changes: a disabled one is    *)
(* never enabled again.                                                     *)
LEMMA ChangeSteps ==
  ASSUME Inv, ReviewUpdate \/ SwitchVersion \/ ChangeDirectory
  PROVE  Inv'
<1>1. /\ UNCHANGED <<run, fence, workerUp, late, over, authorization, context, saved, intent, receipt,
                     result, job, at, outcome, effects, history>>
      /\ handle' = handle \/ RevokeHandles
  BY DEF ReviewUpdate, SwitchVersion, ChangeDirectory, records
<1>2. UNCHANGED <<approval, used, revoked>>
  BY <1>1 DEF authorization
<1>3. troubles' \in 0 .. MaxTroubles
  <2>1. troubles' = troubles \/ Trouble
    BY DEF ReviewUpdate, SwitchVersion, ChangeDirectory
  <2>2. troubles \in 0 .. MaxTroubles
    BY DEF Inv, WorldTypes
  <2> QED
    BY <2>1, <2>2, TroubleType
<1>4. dir' \in Nat
  BY DEF ReviewUpdate, SwitchVersion, ChangeDirectory, Inv, WorldTypes
<1>5. /\ cap' \in [life : {"active", "update_proposed", "update_approved", "disabled"},
                   version : Nat, rollback : Nat]
      /\ cap.life = "disabled" => cap'.life = "disabled"
  <2>1. cap \in [life : {"active", "update_proposed", "update_approved", "disabled"},
                 version : Nat, rollback : Nat]
    BY DEF Inv, WorldTypes
  <2>2. CASE ReviewUpdate
    <3>1. PICK to \in {"active", "update_proposed", "update_approved"} :
            cap' = [cap EXCEPT !.life = to]
      BY <2>2 DEF ReviewUpdate
    <3>2. cap.life # "disabled"
      BY <2>2 DEF ReviewUpdate
    <3> QED
      BY <2>1, <3>1, <3>2
  <2>3. CASE SwitchVersion
    <3>1. cap.life # "disabled"
      BY <2>3 DEF SwitchVersion
    <3>2. \/ cap' = [life |-> "active", version |-> cap.version + 1, rollback |-> cap.version]
          \/ cap' = [cap EXCEPT !.version = cap.rollback, !.rollback = 0]
      BY <2>3 DEF SwitchVersion
    <3>3. cap.version \in Nat /\ cap.version + 1 \in Nat /\ cap.rollback \in Nat /\ 0 \in Nat
      BY <2>1
    <3>4. CASE cap' = [life |-> "active", version |-> cap.version + 1, rollback |-> cap.version]
      BY <3>1, <3>3, <3>4
    <3>5. CASE cap' = [cap EXCEPT !.version = cap.rollback, !.rollback = 0]
      BY <2>1, <3>1, <3>3, <3>5
    <3> QED
      BY <3>2, <3>4, <3>5
  <2>4. CASE ChangeDirectory
    BY <2>1, <2>4 DEF ChangeDirectory
  <2> QED
    BY <2>2, <2>3, <2>4
<1>6. /\ handle' \in [Phases -> {"none", "active", "consumed", "revoked"}]
      /\ \A k \in receipt : handle'[k] = "consumed"
  BY <1>1, HandlesRevoked DEF Inv, RecordTypes
<1>7. WorldTypes'
  BY <1>1, <1>3, <1>4, <1>5 DEF Inv, WorldTypes
<1>8. RecordTypes' /\ Consents'
  BY <1>1, <1>2, <1>6 DEF Inv, RecordTypes, Consents
<1> QED
  BY <1>1, <1>2, <1>5, <1>7, <1>8, Aside

(* A call whose last result is not recorded has not been shown, and is not  *)
(* in the last step of a read.                                              *)
LEMMA UnrecordedCalls ==
  ASSUME Inv, NEW d \in Unrecorded
  PROVE  /\ d \in Calls /\ outcome[d] # "shown" /\ result[LastPhase(d)] # "succeeded"
         /\ d \notin Coding => ~(at.call = d /\ at.step = 5)
<1>1. d \in Calls /\ result[LastPhase(d)] = "none"
  BY DEF Unrecorded
<1>2. outcome[d] # "shown"
  BY <1>1 DEF Inv, Shown
<1>3. ASSUME d \notin Coding, at.call = d, at.step = 5 PROVE FALSE
  BY <1>1, <1>3, CallsAssumption DEF Inv, Progress, Going
<1> QED
  BY <1>1, <1>2, <1>3

(* A one-time grant is revoked. *)
LEMMA RevokeSteps ==
  ASSUME Inv, NEW i \in Intents, RevokeGrant(i)
  PROVE  Inv'
<1>1. /\ Trouble /\ revoked' = revoked \cup {i} /\ barred' = barred \cup ({i} \cap Unacted)
      /\ closed' = closed \cup (IF i[2] = "inspect" THEN {} ELSE {i[1]} \cap Unrecorded)
      /\ UNCHANGED <<run, fence, workerUp, cap, dir, late, over, approval, used, records, job, at,
                     outcome, effects>>
  BY DEF RevokeGrant
<1>2. UNCHANGED <<context, handle, saved, intent, receipt, result>>
  BY <1>1 DEF records
<1>3. troubles' \in 0 .. MaxTroubles
  BY <1>1, TroubleType
<1>4. WorldTypes' /\ RecordTypes' /\ Consents' /\ Acts'
  BY <1>1, <1>2, <1>3 DEF Inv, WorldTypes, RecordTypes, Consents, Acts
<1>5. Stopped' <=> Stopped
  BY <1>1 DEF Stopped
<1>6. ASSUME NEW k \in barred' PROVE k \in Phases /\ effects[k] = 0 /\ (k \in revoked' \/ Stopped)
  BY <1>1, <1>6 DEF Inv, Barred, ResultTypes, Unacted
<1>7. ASSUME NEW d \in closed'
      PROVE  d \in Calls /\ outcome[d] # "shown" /\ ClosedCall(d)'
  <2>1. CASE d \in closed
    <3>1. d \in Calls /\ outcome[d] # "shown" /\ ClosedCall(d)
      BY <2>1 DEF Inv, Closed, ResultTypes
    <3>2. ClosedCall(d)'
      BY <1>1, <1>2, <1>5, <3>1 DEF ClosedCall
    <3> QED
      BY <3>1, <3>2
  <2>2. CASE d \notin closed
    <3>1. i[2] # "inspect" /\ d = i[1] /\ d \in Unrecorded
      BY <1>1, <1>7, <2>2
    <3>2. /\ d \in Calls /\ outcome[d] # "shown"
          /\ d \notin Coding => ~(at.call = d /\ at.step = 5)
      BY <3>1, UnrecordedCalls
    <3>3. i = LastPhase(d) \/ (d \notin Coding /\ i = <<d, "disclose">>)
      BY <3>1, CallsAssumption DEF Intents, Phases, LastPhase
    <3>4. i \in revoked'
      BY <1>1
    <3>5. ClosedCall(d)'
      BY <1>1, <3>2, <3>3, <3>4 DEF ClosedCall
    <3> QED
      BY <3>2, <3>5
  <2> QED
    BY <2>1, <2>2
<1>8. ResultTypes'
  BY <1>1, <1>2, <1>6, <1>7 DEF Inv, ResultTypes
<1>9. Barred' /\ Closed'
  BY <1>1, <1>5, <1>6, <1>7 DEF Barred, Closed
<1> QED
  BY <1>1, <1>2, <1>4, <1>8, <1>9, Stays DEF DataKept

(* The Run is cancelled or the capability disabled: what has not acted will *)
(* not act, and what is not recorded will not be shown.                     *)
LEMMA StopSteps ==
  ASSUME Inv, CancelRun \/ Disable
  PROVE  Inv'
<1>1. /\ Trouble /\ barred' = barred \cup Unacted /\ closed' = closed \cup Unrecorded
      /\ UNCHANGED <<fence, workerUp, dir, late, over, authorization, context, saved, intent, receipt,
                     result, job, effects>>
      /\ handle' = handle \/ RevokeHandles
  BY DEF CancelRun, Disable, records
<1>2. UNCHANGED <<approval, used, revoked>>
  BY <1>1 DEF authorization
<1>3. troubles' \in 0 .. MaxTroubles
  BY <1>1, TroubleType
<1>4. cap' \in [life : {"active", "update_proposed", "update_approved", "disabled"},
                version : Nat, rollback : Nat]
  BY DEF CancelRun, Disable, Inv, WorldTypes
<1>5. /\ handle' \in [Phases -> {"none", "active", "consumed", "revoked"}]
      /\ \A k \in receipt : handle'[k] = "consumed"
  BY <1>1, HandlesRevoked DEF Inv, RecordTypes
<1>6. WorldTypes'
  BY <1>1, <1>3, <1>4 DEF Inv, WorldTypes
<1>7. RecordTypes' /\ Consents' /\ Acts'
  BY <1>1, <1>2, <1>5 DEF Inv, RecordTypes, Consents, Acts
<1>8. ASSUME NEW d \in closed'
      PROVE  d \in Calls /\ outcome[d] # "shown" /\ (d \in closed \/ result[LastPhase(d)] # "succeeded")
  BY <1>1, <1>8, UnrecordedCalls DEF Inv, Closed, ResultTypes
<1>9. ResultTypes'
  BY <1>1, <1>2, <1>8 DEF Inv, ResultTypes, Unacted
<1>10. DataKept'
  BY <1>6, <1>7, <1>9 DEF DataKept
<1>11. Stopped'
  <2>1. CASE CancelRun
    BY <2>1 DEF CancelRun, Stopped
  <2>2. CASE Disable
    BY <2>2 DEF Disable, Stopped, Inv, WorldTypes
  <2> QED
    BY <2>1, <2>2
<1>12. Barred'
  BY <1>1, <1>11 DEF Inv, Barred, Unacted
<1>13. ASSUME NEW d \in closed', at' = at \/ at' = Idle PROVE ClosedCall(d)'
  <2>1. CASE d \in closed
    <3>1. ClosedCall(d) /\ d \in Calls /\ d # "none"
      BY <2>1, CallsAssumption DEF Inv, Closed, ResultTypes
    <3>2. at'.call = d => at' = at
      BY <1>13, <3>1 DEF Idle
    <3> QED
      BY <1>1, <1>2, <1>11, <3>1, <3>2 DEF ClosedCall
  <2>2. CASE d \notin closed
    BY <1>1, <1>8, <1>11, <1>13, <2>2 DEF ClosedCall
  <2> QED
    BY <2>1, <2>2
<1>14. CASE UNCHANGED <<at, outcome>> /\ (run' = run \/ (run' = "ended" /\ run # "waiting"))
  <2>1. Closed'
    BY <1>8, <1>13, <1>14 DEF Closed
  <2> QED
    BY <1>1, <1>2, <1>10, <1>12, <1>14, <2>1, Stays
<1>15. CASE run = "waiting" /\ End("unknown") /\ run' = "ended"
  <2>1. at.pc = "wait_owner"
    BY <1>15 DEF Inv, CallTypes
  <2>2. PICK c, s, p : Now(c, s, p) /\ at.call = c
    BY <2>1, InProgress
  <2>3. c \in Calls /\ at' = Idle /\ outcome' = [outcome EXCEPT ![c] = "unknown"]
    BY <1>15, <2>2 DEF End, Now
  <2>4. /\ outcome' \in [Calls -> {"none", "shown", "failed", "unknown"}]
        /\ \A d \in Calls : outcome'[d] = IF d = c THEN "unknown" ELSE outcome[d]
    BY <2>3 DEF Inv, CallTypes
  <2>5. at'.call = "none" /\ at'.pc = "idle"
    BY <2>3 DEF Idle
  <2>6. Idle \in [call : Calls \cup {"none"}, step : 0 .. 5, pc : Points]
    BY DEF Idle, Points
  <2>7. CallTypes' /\ Progress'
    BY <1>15, <2>3, <2>4, <2>5, <2>6 DEF CallTypes, Progress
  <2>8. Shown'
    BY <1>1, <2>4 DEF Inv, Shown
  <2>9. Closed'
    BY <1>8, <1>13, <2>3, <2>4 DEF Closed
  <2> QED
    BY <1>10, <1>12, <2>7, <2>8, <2>9 DEF Inv, DataKept
<1> QED
  BY <1>14, <1>15 DEF CancelRun, Disable

(* The steps of the Owner. *)
LEMMA OwnerSteps ==
  ASSUME Inv, Owner
  PROVE  Inv'
<1>1. CASE \E i \in Intents : Respond(i) \/ RevokeGrant(i)
  BY <1>1, RespondSteps, RevokeSteps
<1>2. CASE CancelRun \/ Disable
  BY <1>2, StopSteps
<1>3. CASE ReviewUpdate \/ SwitchVersion \/ ChangeDirectory
  BY <1>3, ChangeSteps
<1> QED
  BY <1>1, <1>2, <1>3 DEF Owner

-----------------------------------------------------------------------------
(* The theorems *)

(* The service's steps, each shown above. *)
LEMMA ServiceSteps ==
  ASSUME Inv, Service
  PROVE  Inv'
<1>1. CASE Active \/ Check \/ List \/ Load \/ Issue \/ Enter \/ Poll \/ Event
  BY <1>1, LookSteps
<1>2. CASE Replay \/ Final
  BY <1>2, ReturnSteps
<1>3. CASE (\E c \in Calls : Call(c)) \/ Suspend \/ Resume \/ Expire
  BY <1>3, WaitSteps
<1>4. CASE Consume \/ Ask
  BY <1>4, GrantSteps
<1>5. CASE Create \/ Keep \/ Record \/ Admit \/ Send
  BY <1>5, RequestSteps
<1>6. CASE Open \/ Settle \/ GiveUp
  BY <1>6, OpenSteps, SettleSteps, GiveUpSteps
<1> QED
  BY <1>1, <1>2, <1>3, <1>4, <1>5, <1>6 DEF Service, Evaluate, RunPhase, Execute

(* The invariant holds at the start. *)
LEMMA InitInv == Init => Inv
<1> SUFFICES ASSUME Init PROVE Inv
  OBVIOUS
<1>1. at.call = "none" /\ at.pc = "idle"
  BY DEF Init, Idle
<1>2. at \in [call : Calls \cup {"none"}, step : 0 .. 5, pc : Points]
  BY DEF Init, Idle, Points
<1>3. CallTypes
  BY <1>1, <1>2 DEF Init, CallTypes
<1>4. WorldTypes
  BY BoundsAssumption DEF Init, WorldTypes, Version
<1>5. RecordTypes
  BY DEF Init, RecordTypes, NoContext
<1>6. ResultTypes
  BY DEF Init, ResultTypes
<1>7. Progress
  BY <1>1 DEF Progress
<1>8. Consents /\ Acts /\ Barred /\ Closed
  BY DEF Init, Consents, Acts, Barred, Closed
<1>9. Shown
  BY DEF Init, Shown
<1> QED
  BY <1>3, <1>4, <1>5, <1>6, <1>7, <1>8, <1>9 DEF Inv

(* Every step keeps the invariant. *)
LEMMA NextInv == Inv /\ [Next]_vars => Inv'
<1> SUFFICES ASSUME Inv, [Next]_vars PROVE Inv'
  OBVIOUS
<1>1. CASE Service
  BY <1>1, ServiceSteps
<1>2. CASE Worker
  BY <1>2, WorkerSteps
<1>3. CASE Time
  BY <1>3, TimeSteps
<1>4. CASE Owner
  BY <1>4, OwnerSteps
<1>5. CASE WorkerDies \/ Restart
  BY <1>5, DeathSteps
<1>6. CASE UNCHANGED vars
  <2>1. UNCHANGED <<run, world, authorization, records, job, at, outcome, effects, history>>
    BY <1>6 DEF vars
  <2>2. UNCHANGED <<used, revoked, saved, intent, receipt, result, cap>>
    BY <2>1 DEF authorization, records, world
  <2>3. WorldTypes' /\ RecordTypes' /\ Consents'
    BY <2>1, DataUnchanged DEF DataKept
  <2> QED
    BY <2>1, <2>2, <2>3, Aside
<1> QED
  BY <1>1, <1>2, <1>3, <1>4, <1>5, <1>6 DEF Next

(* The invariant of the governed tool calls. *)
THEOREM ToolInvariant == Spec => []Inv
<1> QED
  BY InitInv, NextInv, PTL DEF Spec

(* Rows, records and the call in progress have the form the code gives      *)
(* them; a phase with a receipt has its request on record and its handle    *)
(* used up (CapabilityInvocationService, consume).                          *)
THEOREM ToolTypeCorrect == Spec => []TypeOK
<1>1. Inv => TypeOK
  BY StepLists DEF Inv, TypeOK, CallTypes, WorldTypes, RecordTypes, ResultTypes, Points
<1> QED
  BY <1>1, ToolInvariant, PTL

(* The worker acts on a phase at most once, and only for what the Owner has *)
(* approved and the policy has charged to a grant: for a file read the      *)
(* reading and the disclosure (the workflows, ActionPolicyService.evaluate, *)
(* the journal's replay of a recorded request).                             *)
THEOREM EffectsHaveApprovals == Spec => []EffectsAreApproved
<1>1. Inv => EffectsAreApproved
  <2> SUFFICES ASSUME Inv, NEW k \in Phases
               PROVE  /\ effects[k] <= 1
                      /\ effects[k] = 1 =>
                           \A i \in Intents :
                             (i = k \/ (k[2] = "read" /\ i = <<k[1], "disclose">>)) =>
                               approval[i] = "approved" /\ i \in used
    BY DEF EffectsAreApproved
  <2>1. effects[k] = 0 \/ effects[k] = 1
    BY DEF Inv, Acts
  <2>2. effects[k] <= 1
    BY <2>1
  <2>3. ASSUME effects[k] = 1
        PROVE  k \in used /\ (k[2] = "read" => <<k[1], "disclose">> \in used)
    BY <2>3 DEF Inv, Acts, Consents
  <2>4. \A i \in used : approval[i] = "approved"
    BY DEF Inv, Consents
  <2> QED
    BY <2>2, <2>3, <2>4
<1> QED
  BY <1>1, ToolInvariant, PTL

(* A withdrawal takes hold: a phase whose grant was revoked, whose          *)
(* capability was disabled or whose Run was cancelled before the worker had *)
(* its input is not acted on, and a result not recorded by then is never    *)
(* shown to the model (the live receipt lookup of the payload broker and of *)
(* the invocation service).                                                 *)
THEOREM WithdrawalsHold == Spec => []WithdrawalHolds
<1>1. Inv => WithdrawalHolds
  BY DEF Inv, WithdrawalHolds, Barred, Closed
<1> QED
  BY <1>1, ToolInvariant, PTL

=============================================================================

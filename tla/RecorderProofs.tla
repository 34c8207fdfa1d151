---------------------------- MODULE RecorderProofs ----------------------------
(* Proofs of the invariants of Recorder, for any number of recordings, faults  *)
(* and rooms.                                                                  *)
EXTENDS Recorder, TLAPS

-----------------------------------------------------------------------------
\* What makes the invariants inductive.

\* A recorder that has not come to its end will set can_record.
Unset == {t \in Recordings : at[t] \in {"open", "record", "save", "return"}}

ButtonWillBeReady == alive /\ ~canRecord /\ ~noThread => Unset # {}

NotStarted == \A t \in Recordings : t > started => at[t] = "off"

FileTaken == \A t \in Recordings : at[t] = "file" => taken[t] \in Recordings

SavedOwn == \A t \in Recordings : saved[t] \in {None, Garbage, t}

OnesBesideOthers ==
    \A t, u \in Going : t # u => t \in overlapped

\* The names a recorder that is by itself has put into the shared field, and taken.
OwnNames ==
    \A t \in Recordings \ overlapped :
        /\ at[t] = "send" => recordFile \in {None, Garbage, t}
        /\ at[t] = "file" => taken[t] = t

RoomsKept ==
    \A t \in Going : currentRoom = asked[t] \/ t \in moved

PostedByStarted == \A p \in posted : p.by <= started

RecorderInv ==
    /\ TypeOK
    /\ ButtonWillBeReady
    /\ NotStarted
    /\ FileTaken
    /\ SavedOwn
    /\ OnesBesideOthers
    /\ OwnNames
    /\ RoomsKept
    /\ PostedByStarted
    /\ OwnFileIsSent
    /\ RoomIsKept

-----------------------------------------------------------------------------

\* The next recording, when one may be begun.
LEMMA NextRecording ==
    ASSUME TypeOK, started < MaxRecordings
    PROVE  /\ started + 1 \in Recordings /\ started + 1 \in 0 .. MaxRecordings
           /\ started + 1 > started
BY RecorderAssumption DEF TypeOK, Recordings

LEMMA Counters ==
           /\ MaxRecordings \in Nat /\ MaxFaults \in Nat
           /\ \A t \in Recordings : t \in Nat
           /\ None \notin Recordings /\ Garbage \notin Recordings /\ None # Garbage
BY RecorderAssumption DEF Recordings

-----------------------------------------------------------------------------
\* Types.

LEMMA TypeInit == Init => TypeOK
<1>1. Init => /\ at \in [Recordings -> Places]
              /\ saved \in [Recordings -> Recordings \cup {None, Garbage}]
              /\ taken \in [Recordings -> Recordings \cup {None}]
              /\ asked \in [Recordings -> Rooms]
  BY DEF Init, Places
<1>2. Init => started \in 0 .. MaxRecordings /\ faults \in 0 .. MaxFaults
  BY RecorderAssumption DEF Init
<1> QED
  BY <1>1, <1>2 DEF Init, TypeOK

LEMMA FaultType ==
    ASSUME TypeOK, Fault
    PROVE  faults' \in 0 .. MaxFaults
BY RecorderAssumption DEF TypeOK, Fault

LEMMA TypeGtkStep ==
    ASSUME TypeOK,
           ChangePage \/ SendFromPage \/ StartPressed \/ StopPressed \/ Wake
    PROVE  TypeOK'
<1>1. CASE ChangePage
  BY <1>1 DEF ChangePage, TypeOK, history
<1>2. CASE SendFromPage
  BY <1>2 DEF SendFromPage, TypeOK, Going
<1>3. CASE StartPressed
  <2>1. /\ faults' \in 0 .. MaxFaults
        /\ noThread' \in BOOLEAN
        /\ overlapped' \subseteq Recordings
        /\ started' \in 0 .. MaxRecordings
        /\ at' \in [Recordings -> Places]
        /\ asked' \in [Recordings -> Rooms]
    <3>1. CASE Fault /\ overlapped' = overlapped \cup Going /\ noThread' = TRUE
               /\ UNCHANGED <<started, at, asked>>
      BY <3>1, FaultType DEF TypeOK, Going
    <3>2. CASE ~(Fault /\ overlapped' = overlapped \cup Going /\ noThread' = TRUE
                 /\ UNCHANGED <<started, at, asked>>)
      <4>1. started + 1 \in Recordings /\ started + 1 \in 0 .. MaxRecordings
        BY <1>3, NextRecording DEF StartPressed
      <4>2. "open" \in Places
        BY DEF Places
      <4> QED
        BY <1>3, <3>2, <4>1, <4>2 DEF StartPressed, TypeOK, Going
    <3> QED
      BY <3>1, <3>2
  <2> QED
    BY <1>3, <2>1 DEF StartPressed, RoomOfPress, TypeOK, Going
<1>4. CASE StopPressed
  BY <1>4 DEF StopPressed, TypeOK
<1>5. CASE Wake
  BY <1>5 DEF Wake, TypeOK, history
<1> QED
  BY <1>1, <1>2, <1>3, <1>4, <1>5

LEMMA TypeRecorderStep ==
    ASSUME TypeOK, FileTaken, NEW t \in Recordings, RecorderStep(t)
    PROVE  TypeOK'
<1> USE DEF Step, Untouched, history, shared, Places
<1>1. CASE OpenDevice(t)
  BY <1>1, FaultType DEF OpenDevice, TypeOK
<1>2. CASE StopRecording(t)
  BY <1>2 DEF StopRecording, TypeOK
<1>3. CASE SaveAudio(t)
  BY <1>3, FaultType DEF SaveAudio, TypeOK
<1>4. CASE ReturnFromRecord(t)
  BY <1>4 DEF ReturnFromRecord, TypeOK
<1>5. CASE SetRecordFile(t)
  BY <1>5 DEF SetRecordFile, TypeOK
<1>6. CASE OpenFile(t)
  BY <1>6 DEF OpenFile, FileToSend, TypeOK
<1>7. CASE PostFile(t)
  <2>1. taken[t] \in Recordings /\ currentRoom \in Rooms
    BY <1>7 DEF PostFile, FileTaken, TypeOK
  <2> QED
    BY <1>7, <2>1 DEF PostFile, TypeOK
<1> QED
  BY <1>1, <1>2, <1>3, <1>4, <1>5, <1>6, <1>7 DEF RecorderStep

LEMMA TypeStep ==
    ASSUME TypeOK, FileTaken, [Next]_vars
    PROVE  TypeOK'
<1>1. CASE UNCHANGED vars
  BY <1>1 DEF vars, shared, history, TypeOK
<1> QED
  BY <1>1, TypeGtkStep, TypeRecorderStep DEF Next

-----------------------------------------------------------------------------
\* What each thread's steps leave alone.

LEMMA OneRecorderMoves ==
    ASSUME TypeOK, NEW t \in Recordings, RecorderStep(t)
    PROVE  /\ alive
           /\ at'[t] # "off"
           /\ at[t] \notin {"off", "done"}
           /\ \A u \in Recordings \ {t} : at'[u] = at[u]
           /\ \A u \in Recordings \ {t} : taken'[u] = taken[u]
           /\ UNCHANGED <<currentRoom, started, asked, moved, overlapped, noThread>>
BY DEF RecorderStep, OpenDevice, StopRecording, SaveAudio, ReturnFromRecord,
   SetRecordFile, OpenFile, PostFile, Step, Untouched, history, shared, TypeOK

\* The press of the button either begins the next recording or makes no thread.
LEMMA PressEffect ==
    ASSUME TypeOK, NotStarted, StartPressed
    PROVE  \/ /\ UNCHANGED <<started, at, asked>>
              /\ noThread' /\ overlapped' = overlapped \cup Going
           \/ \E n \in Recordings :
                 /\ n = started + 1 /\ started' = n /\ at[n] = "off"
                 /\ at'[n] = "open" /\ asked'[n] = currentRoom'
                 /\ \A u \in Recordings \ {n} : at'[u] = at[u] /\ asked'[u] = asked[u]
                 /\ overlapped \cup Going \subseteq overlapped'
                 /\ Going # {} => n \in overlapped'
                 /\ overlapped' \subseteq overlapped \cup Going \cup {n}
<1>1. PICK n \in Recordings : n = started + 1 /\ n > started
  BY NextRecording DEF StartPressed
<1>2. at[n] = "off"
  BY <1>1 DEF NotStarted
<1> QED
  BY <1>1, <1>2 DEF StartPressed, RoomOfPress, TypeOK

LEMMA ButtonStep ==
    ASSUME RecorderInv, [Next]_vars
    PROVE  ButtonWillBeReady'
<1> USE DEF RecorderInv
<1>1. CASE ChangePage \/ SendFromPage \/ Wake \/ UNCHANGED vars
  BY <1>1 DEF ChangePage, SendFromPage, Wake, vars, shared, history,
     ButtonWillBeReady, Unset
<1>2. CASE StartPressed
  BY <1>2, PressEffect DEF ButtonWillBeReady, Unset
<1>3. CASE StopPressed
  BY <1>3 DEF StopPressed, ButtonWillBeReady
<1>4. ASSUME NEW t \in Recordings, RecorderStep(t)
      PROVE  ButtonWillBeReady'
  <2>1. CASE ReturnFromRecord(t)
    BY <2>1 DEF ReturnFromRecord, ButtonWillBeReady
  <2>2. ASSUME NEW from, NEW to, Step(t, from, to), alive', canRecord' = canRecord,
               \/ from \in {"open", "record", "save"} /\ to \in {"record", "save", "return"}
               \/ from \notin {"open", "record", "save", "return"}
        PROVE  ButtonWillBeReady'
    <3>1. noThread' = noThread
      BY <1>4, OneRecorderMoves
    <3>2. Unset # {} => Unset' # {}
      <4>1. PICK u \in Recordings : Unset # {} => u \in Unset
        BY DEF Unset
      <4>2. u \in Unset => u \in Unset'
        BY <2>2 DEF Step, Unset, TypeOK
      <4> QED
        BY <4>1, <4>2
    <3> QED
      BY <2>2, <3>1, <3>2 DEF Step, ButtonWillBeReady
  <2>3. CASE ~alive'
    BY <2>3 DEF ButtonWillBeReady
  <2> QED
    BY <1>4, <2>1, <2>2, <2>3 DEF RecorderStep, OpenDevice, StopRecording,
       SaveAudio, SetRecordFile, OpenFile, PostFile, shared, TypeOK
<1> QED
  BY <1>1, <1>2, <1>3, <1>4 DEF Next

LEMMA StartedStep ==
    ASSUME RecorderInv, [Next]_vars
    PROVE  NotStarted' /\ PostedByStarted'
<1> USE DEF RecorderInv, NotStarted, PostedByStarted
<1>1. CASE ChangePage \/ SendFromPage \/ Wake \/ StopPressed \/ UNCHANGED vars
  BY <1>1 DEF ChangePage, SendFromPage, Wake, StopPressed, vars, shared
<1>2. CASE StartPressed
  <2>1. posted' = posted
    BY <1>2 DEF StartPressed
  <2>2. \A p \in posted : p.by \in Nat
    BY Counters DEF TypeOK
  <2> QED
    BY <1>2, <2>1, <2>2, PressEffect, Counters DEF TypeOK
<1>3. ASSUME NEW t \in Recordings, RecorderStep(t)
      PROVE  NotStarted' /\ PostedByStarted'
  <2>1. t <= started
    BY <1>3, OneRecorderMoves, Counters DEF TypeOK
  <2>2. posted' = posted \/ \E f, r : posted' = posted \cup {[by |-> t, file |-> f, room |-> r]}
    BY <1>3 DEF RecorderStep, OpenDevice, StopRecording, SaveAudio,
       ReturnFromRecord, SetRecordFile, OpenFile, PostFile, Untouched
  <2> QED
    BY <1>3, <2>1, <2>2, OneRecorderMoves, Counters DEF TypeOK
<1> QED
  BY <1>1, <1>2, <1>3 DEF Next

LEMMA NamesTakenStep ==
    ASSUME RecorderInv, [Next]_vars
    PROVE  FileTaken' /\ SavedOwn'
<1> USE DEF RecorderInv, FileTaken, SavedOwn
<1>1. CASE ChangePage \/ SendFromPage \/ Wake \/ StopPressed \/ UNCHANGED vars
  BY <1>1 DEF ChangePage, SendFromPage, Wake, StopPressed, vars, shared
<1>2. CASE StartPressed
  BY <1>2, PressEffect DEF StartPressed
<1>3. ASSUME NEW t \in Recordings, RecorderStep(t)
      PROVE  FileTaken' /\ SavedOwn'
  BY <1>3 DEF RecorderStep, OpenDevice, StopRecording, SaveAudio, ReturnFromRecord,
     SetRecordFile, OpenFile, FileToSend, PostFile, Step, Untouched, TypeOK
<1> QED
  BY <1>1, <1>2, <1>3 DEF Next

\* Of two recorders that are going, both are known to be.
LEMMA BesideStep ==
    ASSUME RecorderInv, [Next]_vars
    PROVE  OnesBesideOthers'
<1> USE DEF RecorderInv, OnesBesideOthers, Going
<1>1. CASE ChangePage \/ SendFromPage \/ Wake \/ StopPressed \/ UNCHANGED vars
  BY <1>1 DEF ChangePage, SendFromPage, Wake, StopPressed, vars, shared, history
<1>2. CASE StartPressed
  BY <1>2, PressEffect
<1>3. ASSUME NEW t \in Recordings, RecorderStep(t)
      PROVE  OnesBesideOthers'
  BY <1>3, OneRecorderMoves
<1> QED
  BY <1>1, <1>2, <1>3 DEF Next

LEMMA OwnNamesStep ==
    ASSUME RecorderInv, [Next]_vars
    PROVE  OwnNames' /\ OwnFileIsSent'
<1> USE DEF RecorderInv, OwnNames, OwnFileIsSent
<1>1. CASE ChangePage \/ SendFromPage \/ Wake \/ StopPressed \/ UNCHANGED vars
  BY <1>1 DEF ChangePage, SendFromPage, Wake, StopPressed, vars, shared, history
<1>2. CASE StartPressed
  <2>1. recordFile' = None /\ UNCHANGED <<taken, posted>>
    BY <1>2 DEF StartPressed
  <2> QED
    BY <1>2, <2>1, PressEffect DEF TypeOK
<1>3. ASSUME NEW t \in Recordings, RecorderStep(t)
      PROVE  OwnNames' /\ OwnFileIsSent'
  <2>1. overlapped' = overlapped
    BY <1>3, OneRecorderMoves
  <2>2. \A u \in Recordings \ overlapped : at[u] = "send" => u = t
    BY <1>3, OneRecorderMoves DEF OnesBesideOthers, Going
  <2>3. CASE SetRecordFile(t)
    <3>1. recordFile' \in {None, Garbage, t} /\ posted' = posted /\ taken' = taken
      BY <2>3 DEF SetRecordFile, SavedOwn, Untouched
    <3>2. at' = [at EXCEPT ![t] = "send"]
      BY <2>3 DEF SetRecordFile, Step
    <3> QED
      BY <2>1, <2>2, <3>1, <3>2, OneRecorderMoves, <1>3 DEF TypeOK
  <2>4. CASE OpenFile(t)
    <3>1. recordFile' = recordFile /\ posted' = posted /\ at[t] = "send"
      BY <2>4 DEF OpenFile, Untouched, Step
    <3>2. at'[t] = "file" => taken'[t] = recordFile /\ recordFile \in Recordings
      BY <2>4 DEF OpenFile, FileToSend, Step, TypeOK
    <3>3. at'[t] \in {"file", "done"}
      BY <2>4 DEF OpenFile, Step, TypeOK
    <3> QED
      BY <1>3, <2>1, <3>1, <3>2, <3>3, OneRecorderMoves, Counters
  <2>5. CASE PostFile(t)
    <3>1. /\ UNCHANGED <<recordFile, taken>> /\ at[t] = "file" /\ at'[t] = "done"
          /\ posted' = posted \cup {[by |-> t, file |-> taken[t], room |-> currentRoom]}
      BY <2>5 DEF PostFile, Step, shared, TypeOK
    <3> QED
      BY <1>3, <2>1, <3>1, OneRecorderMoves
  <2>6. CASE \/ OpenDevice(t) \/ StopRecording(t) \/ SaveAudio(t)
             \/ ReturnFromRecord(t)
    <3>1. UNCHANGED <<recordFile, taken, posted>> /\ at'[t] \notin {"send", "file"}
      BY <2>6 DEF OpenDevice, StopRecording, SaveAudio, ReturnFromRecord, Step,
         Untouched, TypeOK
    <3> QED
      BY <1>3, <2>1, <3>1, OneRecorderMoves
  <2> QED
    BY <1>3, <2>3, <2>4, <2>5, <2>6 DEF RecorderStep
<1> QED
  BY <1>1, <1>2, <1>3 DEF Next

LEMMA RoomsStep ==
    ASSUME RecorderInv, [Next]_vars
    PROVE  RoomsKept' /\ RoomIsKept'
<1> USE DEF RecorderInv, RoomsKept, RoomIsKept, Going
<1>1. CASE ChangePage \/ SendFromPage \/ Wake \/ StopPressed \/ UNCHANGED vars
  BY <1>1 DEF ChangePage, SendFromPage, Wake, StopPressed, vars, shared, history
<1>2. CASE StartPressed
  <2>1. moved' = moved \cup Going /\ posted' = posted
    BY <1>2 DEF StartPressed
  <2>2. \A p \in posted : p.by \in Recordings /\ p.by <= started
    BY DEF PostedByStarted, TypeOK
  <2>3. \A p \in posted : asked'[p.by] = asked[p.by]
    BY <1>2, <2>2, PressEffect, Counters DEF TypeOK
  <2> QED
    BY <1>2, <2>1, <2>3, PressEffect
<1>3. ASSUME NEW t \in Recordings, RecorderStep(t)
      PROVE  RoomsKept' /\ RoomIsKept'
  <2>1. posted' = posted \/ \E f : posted' = posted \cup
                               {[by |-> t, file |-> f, room |-> currentRoom]}
    BY <1>3 DEF RecorderStep, OpenDevice, StopRecording, SaveAudio,
       ReturnFromRecord, SetRecordFile, OpenFile, PostFile, Untouched
  <2> QED
    BY <1>3, <2>1, OneRecorderMoves
<1> QED
  BY <1>1, <1>2, <1>3 DEF Next

-----------------------------------------------------------------------------
\* The inductive invariant.

LEMMA RecorderInit == Init => RecorderInv
<1> SUFFICES ASSUME Init
             PROVE  RecorderInv
  OBVIOUS
<1>1. TypeOK
  BY TypeInit
<1>2. Going = {} /\ posted = {} /\ canRecord
  BY DEF Init, Going
<1>3. ButtonWillBeReady /\ NotStarted /\ FileTaken /\ SavedOwn /\ OwnNames
  BY DEF Init, ButtonWillBeReady, NotStarted, FileTaken, SavedOwn, OwnNames
<1>4. OnesBesideOthers /\ RoomsKept /\ PostedByStarted /\ OwnFileIsSent /\ RoomIsKept
  BY <1>2 DEF OnesBesideOthers, RoomsKept, PostedByStarted, OwnFileIsSent,
     RoomIsKept
<1> QED
  BY <1>1, <1>3, <1>4 DEF RecorderInv

LEMMA RecorderNext == RecorderInv /\ [Next]_vars => RecorderInv'
<1> SUFFICES ASSUME RecorderInv, [Next]_vars
             PROVE  RecorderInv'
  OBVIOUS
<1>1. TypeOK'
  BY TypeStep DEF RecorderInv
<1> QED
  BY <1>1, ButtonStep, StartedStep, NamesTakenStep, BesideStep, OwnNamesStep,
     RoomsStep DEF RecorderInv

LEMMA RecorderInvariant == Spec => []RecorderInv
BY RecorderInit, RecorderNext, PTL DEF Spec

\* Every variable of the voice messages keeps its type: a NULL name or one that
\* was never written is not opened as a file.
THEOREM RecorderTypes == Spec => []TypeOK
<1>1. RecorderInv => TypeOK
  BY DEF RecorderInv
<1> QED
  BY <1>1, RecorderInvariant, PTL

\* When no recorder is going the button starts a recording, but for the press
\* after one that made no thread.
THEOREM ButtonReady == Spec => []ButtonIsReady
<1>1. RecorderInv => ButtonIsReady
  BY DEF RecorderInv, ButtonWillBeReady, ButtonIsReady, Unset, Going
<1> QED
  BY <1>1, RecorderInvariant, PTL

\* A recorder that was by itself sends the file it recorded.
THEOREM OwnFilesSent == Spec => []OwnFileIsSent
<1>1. RecorderInv => OwnFileIsSent
  BY DEF RecorderInv
<1> QED
  BY <1>1, RecorderInvariant, PTL

\* It sends it to the room of the press that began it, unless current_room was
\* set again in between.
THEOREM RoomsAreKept == Spec => []RoomIsKept
<1>1. RecorderInv => RoomIsKept
  BY DEF RecorderInv
<1> QED
  BY <1>1, RecorderInvariant, PTL
=============================================================================

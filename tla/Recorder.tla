------------------------------- MODULE Recorder -------------------------------
(***************************************************************************)
(* Voice messages of the client.  The button starts a recorder thread, and *)
(* pressed again stops it; the thread saves what it recorded and sends the *)
(* file.  The GTK thread and the recorders share three fields without a    *)
(* lock: info->can_record (1 when nothing is being recorded),              *)
(* info->record_file and info->data->current_room.                         *)
(*                                                                         *)
(* The recorder numbered t records file t.  Time is left out: a pause of   *)
(* 300 ms may end before a recorder has looked at can_record, and a        *)
(* recorder may stop by itself at any frame, as after NUM_SECONDS.         *)
(***************************************************************************)
EXTENDS Naturals

CONSTANTS
    Rooms,
    MaxRecordings,  \* bound: recordings started
    MaxFaults,      \* bound: devices, files and threads that fail
    None,           \* the pointer NULL
    Garbage         \* the field file_name when mx_save_audio has not set it

ASSUME RecorderAssumption ==
    /\ MaxRecordings \in Nat /\ MaxFaults \in Nat
    /\ Rooms # {}
    /\ {None, Garbage} \cap Nat = {} /\ None # Garbage

Recordings == 1 .. MaxRecordings
Places == {"off", "open", "record", "save", "return", "name", "send", "file", "done"}

VARIABLES
    screen,       \* the room on the page shown
    currentRoom,  \* info->data->current_room
    canRecord,    \* info->can_record = 1
    recordFile,   \* info->record_file
    asleep,       \* the GTK thread is in mx_sleep_ms
    at,           \* recording -> what its thread is doing
    saved,        \* recording -> data->file_name
    taken,        \* recording -> the name its thread sends
    alive,        \* the client process
    posted,       \* messages: which thread sent which file where
    started, faults,   \* count what the bounds limit
    asked,        \* history: recording -> the room it was started in
    moved,        \* history: recordings after whose start current_room was set
    overlapped,   \* history: recordings during which the next was begun, and those next
    noThread      \* history: the last press made no thread

shared == <<screen, currentRoom, canRecord, recordFile, asleep>>
history == <<asked, moved, overlapped, noThread>>
vars == <<shared, at, saved, taken, alive, posted, started, faults, history>>

TypeOK ==
    /\ screen \in Rooms /\ currentRoom \in Rooms
    /\ canRecord \in BOOLEAN /\ asleep \in BOOLEAN
    /\ alive \in BOOLEAN /\ noThread \in BOOLEAN
    /\ recordFile \in Recordings \cup {None, Garbage}
    /\ at \in [Recordings -> Places]
    /\ saved \in [Recordings -> Recordings \cup {None, Garbage}]
    /\ taken \in [Recordings -> Recordings \cup {None}]
    /\ posted \subseteq [by : Recordings, file : Recordings, room : Rooms]
    /\ started \in 0 .. MaxRecordings /\ faults \in 0 .. MaxFaults
    /\ asked \in [Recordings -> Rooms]
    /\ moved \subseteq Recordings /\ overlapped \subseteq Recordings

Init ==
    /\ screen \in Rooms /\ currentRoom = screen
    /\ canRecord = TRUE /\ recordFile = None /\ asleep = FALSE
    /\ at = [t \in Recordings |-> "off"]
    /\ saved = [t \in Recordings |-> None]
    /\ taken = [t \in Recordings |-> None]
    /\ alive = TRUE
    /\ posted = {}
    /\ started = 0 /\ faults = 0
    /\ asked = [t \in Recordings |-> screen]
    /\ moved = {} /\ overlapped = {} /\ noThread = FALSE

Going == {t \in Recordings : at[t] \notin {"off", "done"}}

Fault ==
    /\ faults < MaxFaults
    /\ faults' = faults + 1

-----------------------------------------------------------------------------
\* The GTK thread.

GtkAwake == alive /\ ~asleep

\* Another page of the notebook is shown; current_room stays.
ChangePage ==
    /\ GtkAwake
    /\ screen' \in Rooms \ {screen}
    /\ UNCHANGED <<currentRoom, canRecord, recordFile, asleep, at, saved, taken, alive,
                   posted, started, faults, history>>

\* A message, a sticker or a chosen file is sent from the page shown.
SendFromPage ==
    /\ GtkAwake
    /\ currentRoom' = screen
    /\ moved' = moved \cup Going
    /\ UNCHANGED <<screen, canRecord, recordFile, asleep, at, saved, taken, alive, posted,
                   started, faults, asked, overlapped, noThread>>

\* Mutant of RoomOfPress: the callback leaves current_room as it is.
RoomOfPressKept == currentRoom

RoomOfPress == screen

\* mx_record_callback, while can_record is 1.
StartPressed ==
    /\ GtkAwake
    /\ canRecord
    /\ started < MaxRecordings
    /\ canRecord' = FALSE
    /\ recordFile' = None
    /\ currentRoom' = RoomOfPress
    /\ moved' = moved \cup Going
    /\ \/ /\ started' = started + 1
          /\ at' = [at EXCEPT ![started + 1] = "open"]
          /\ asked' = [asked EXCEPT ![started + 1] = screen]
          /\ overlapped' = IF Going = {} THEN overlapped
                           ELSE overlapped \cup Going \cup {started + 1}
          /\ noThread' = FALSE
          /\ UNCHANGED faults
       \/ /\ Fault      \* pthread_create fails: a line on stdout
          /\ overlapped' = overlapped \cup Going
          /\ noThread' = TRUE
          /\ UNCHANGED <<started, at, asked>>
    /\ UNCHANGED <<screen, asleep, saved, taken, alive, posted>>

\* mx_record_callback, while it is 0.
StopPressed ==
    /\ GtkAwake
    /\ ~canRecord
    /\ canRecord' = TRUE
    /\ asleep' = TRUE
    /\ noThread' = FALSE
    /\ UNCHANGED <<screen, currentRoom, recordFile, at, saved, taken, alive, posted,
                   started, faults, asked, moved, overlapped>>

Wake ==
    /\ alive
    /\ asleep
    /\ asleep' = FALSE
    /\ UNCHANGED <<screen, currentRoom, canRecord, recordFile, at, saved, taken, alive,
                   posted, started, faults, history>>

-----------------------------------------------------------------------------
\* The recorder threads: record_thread, mx_record_audio.

Step(t, from, to) ==
    /\ alive
    /\ at[t] = from
    /\ at' = [at EXCEPT ![t] = to]

Untouched ==
    UNCHANGED <<screen, currentRoom, asleep, posted, started, history>>

\* mx_init_stream; when the device cannot be opened mx_record_audio returns NULL,
\* and record_thread copies it with strdup.
OpenDevice(t) ==
    /\ \/ Step(t, "open", "record") /\ UNCHANGED <<alive, faults>>
       \/ Step(t, "open", "done") /\ Fault /\ alive' = FALSE
    /\ UNCHANGED <<canRecord, recordFile, saved, taken>>
    /\ Untouched

\* Mutant of StopRecording: the loop counts no frames.
StopWhenTold(t) ==
    /\ canRecord
    /\ Step(t, "record", "save")
    /\ UNCHANGED <<canRecord, recordFile, saved, taken, alive, faults>>
    /\ Untouched

\* mx_record: between two frames can_record is read, and after NUM_SECONDS the loop
\* ends anyway.
StopRecording(t) ==
    /\ Step(t, "record", "save")
    /\ UNCHANGED <<canRecord, recordFile, saved, taken, alive, faults>>
    /\ Untouched

\* Mutant of SaveAudio: every recording of a session gets the name of the first.
SaveAudioOneName(t) ==
    /\ Step(t, "save", "return")
    /\ saved' = [saved EXCEPT ![t] = 1]
    /\ UNCHANGED <<canRecord, recordFile, taken, alive, faults>>
    /\ Untouched

\* mx_save_audio; when the file cannot be opened file_name stays as malloc left it.
SaveAudio(t) ==
    /\ Step(t, "save", "return")
    /\ \/ saved' = [saved EXCEPT ![t] = t] /\ UNCHANGED faults
       \/ Fault /\ saved' = [saved EXCEPT ![t] = Garbage]
    /\ UNCHANGED <<canRecord, recordFile, taken, alive>>
    /\ Untouched

\* Mutant of ReturnFromRecord: can_record is left to the button.
ReturnOnly(t) ==
    /\ Step(t, "return", "name")
    /\ UNCHANGED <<canRecord, recordFile, saved, taken, alive, faults>>
    /\ Untouched

\* The end of mx_record_audio, which prints the name and sets can_record.
ReturnFromRecord(t) ==
    /\ alive' \in BOOLEAN /\ (saved[t] # Garbage => alive')
    /\ Step(t, "return", "name")
    /\ canRecord' = TRUE
    /\ UNCHANGED <<recordFile, saved, taken, faults>>
    /\ Untouched

\* record_file is a copy of the name.
SetRecordFile(t) ==
    /\ alive' \in BOOLEAN /\ (saved[t] # Garbage => alive')
    /\ Step(t, "name", "send")
    /\ recordFile' = saved[t]
    /\ UNCHANGED <<canRecord, saved, taken, faults>>
    /\ Untouched

\* send_record_thread, run as the thread exits, reads record_file again.
FileToSend == recordFile

\* mx_send_file_from_client opens the file.  A name that is none is not found, and
\* a NULL makes the thread open the file chooser, where the user gives up.
OpenFile(t) ==
    /\ IF FileToSend \in Recordings
       THEN Step(t, "send", "file") /\ taken' = [taken EXCEPT ![t] = FileToSend]
       ELSE Step(t, "send", "done") /\ UNCHANGED taken
    /\ UNCHANGED <<canRecord, recordFile, saved, alive, faults>>
    /\ Untouched

\* It reads current_room and sends the file in pieces.
PostFile(t) ==
    /\ Step(t, "file", "done")
    /\ posted' = posted \cup {[by |-> t, file |-> taken[t], room |-> currentRoom]}
    /\ UNCHANGED <<shared, saved, taken, alive, started, faults, history>>

RecorderStep(t) ==
    \/ OpenDevice(t) \/ StopRecording(t) \/ SaveAudio(t) \/ ReturnFromRecord(t)
    \/ SetRecordFile(t) \/ OpenFile(t) \/ PostFile(t)

Next ==
    \/ ChangePage \/ SendFromPage \/ StartPressed \/ StopPressed \/ Wake
    \/ \E t \in Recordings : RecorderStep(t)

Spec == Init /\ [][Next]_vars

\* A recorder thread keeps going: a frame lasts some milliseconds, and there are at
\* most NUM_SECONDS of them.
FairSpec == Spec /\ \A t \in Recordings : WF_vars(RecorderStep(t))

-----------------------------------------------------------------------------
\* Properties.

\* The button starts a recording whenever none is going on, also after one that
\* ended by itself, one stopped while another was begun, or one that was not saved.
ButtonIsReady == alive /\ Going = {} => canRecord \/ noThread

\* A recorder sends its own file, once, unless it went on beside another one: a
\* recorder's last steps come after can_record is 1 again.
OwnFileIsSent ==
    \A p \in posted : p.file = p.by \/ p.by \in overlapped

\* It is sent to the room in which the button was pressed, unless something else
\* was sent, or recorded, before the file was opened.
RoomIsKept ==
    \A p \in posted : p.room = asked[p.by] \/ p.by \in moved

\* What is recorded is sent, unless it could not be saved or another recording
\* came too near, even if the button is never pressed again.
RecordingIsSent ==
    \A t \in Recordings :
        at[t] = "open" ~>
            \/ \E p \in posted : p.file = t
            \/ ~alive \/ saved[t] = Garbage \/ t \in overlapped
=============================================================================

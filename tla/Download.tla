------------------------------ MODULE Download ------------------------------
(***************************************************************************)
(* Files sent to a client.  Each request starts a thread of the server     *)
(* that writes the file, piece by piece, on the client's connection; the   *)
(* pieces of several threads interleave.  The client keeps a list of files *)
(* being received and finds the entry of a piece by the file's id.         *)
(*                                                                         *)
(* One client and its connection.  The bytes of a file are its piece       *)
(* numbers, so a file of two pieces is <<1, 2>>.  The contexts a broken    *)
(* connection leaves to its threads are the matter of module SocketTree:   *)
(* here the threads of a broken connection just end.                       *)
(***************************************************************************)
EXTENDS Naturals, Sequences, FiniteSets, SequencesExt

CONSTANTS
    Files,         \* ids of file messages the client shows
    Images,        \* those with an image: add_info 2
    Missing,       \* those whose file may no longer be in ./files
    Length,        \* file -> its pieces
    MaxRequests,   \* bound: downloads asked for
    MaxFaults,     \* bound: broken connections, failed reads and opens
    NoFile

ASSUME DownloadAssumption ==
    /\ Images \subseteq Files /\ Missing \subseteq Files
    /\ Length \in [Files -> Nat \ {0}]
    /\ {MaxRequests, MaxFaults} \subseteq Nat
    /\ NoFile \notin Seq(Nat)

\* piece -1 of the code is 0; data is the number of the bytes in the file
Piece == [piece : 0 .. 3, file : Files, data : Nat]
FileEntry == [id : Files, data : Seq(Nat)]
Thread == [file : Files, sent : Nat]

VARIABLES
    requests,     \* connection to the server: ids asked for
    threads,      \* file-sending threads, in the order they were started
    in,           \* connection from the server: pieces
    inputFiles,   \* info->input_files of the client
    disk,         \* file -> its contents in ./Uchat_downloads, or NoFile
    found,        \* files whose room and message mx_find_message still finds
    killer,       \* the file whose last piece made the client exit, or NoFile
    asked, faults,   \* count what the bounds limit
    doubled,      \* history: files asked for while a download of them was going on
    unsaved,      \* history: files the client could not open
    cut           \* history: files whose download was cut by a fault

history == <<doubled, unsaved, cut>>
vars == <<requests, threads, in, inputFiles, disk, found, killer, asked, faults, history>>

alive == killer = NoFile

Sending(t) == threads[t].sent <= Length[threads[t].file]

TypeOK ==
    /\ requests \in Seq(Files)
    /\ threads \in Seq(Thread)
    /\ \A t \in DOMAIN threads : threads[t].sent <= Length[threads[t].file] + 1
    /\ in \in Seq(Piece)
    /\ inputFiles \in Seq(FileEntry)
    /\ disk \in [Files -> {NoFile} \cup Seq(Nat)]
    /\ found \subseteq Files
    /\ killer \in Files \cup {NoFile}
    /\ asked \in 0 .. MaxRequests /\ faults \in 0 .. MaxFaults
    /\ doubled \subseteq Files /\ unsaved \subseteq Files /\ cut \subseteq Files

Init ==
    /\ requests = <<>> /\ threads = <<>> /\ in = <<>>
    /\ inputFiles = <<>>
    /\ disk = [f \in Files |-> NoFile]
    /\ found = Files
    /\ killer = NoFile
    /\ asked = 0 /\ faults = 0
    /\ doubled = {} /\ unsaved = {} /\ cut = {}

\* A download of f is asked for, is being sent or is on the way.
Pending(f) ==
    \/ f \in ToSet(requests)
    \/ \E t \in DOMAIN threads : threads[t].file = f /\ Sending(t)
    \/ \E i \in DOMAIN in : in[i].file = f

-----------------------------------------------------------------------------
\* The client asks.

EntryOf(f) == SelectInSeq(inputFiles, LAMBDA e : e.id = f)

\* mx_load_file: an image is asked for whenever a message with it is shown, any
\* other file when it is clicked, unless it is on the disk or in the list.
LoadFile(f) ==
    /\ alive
    /\ f \in found
    /\ asked < MaxRequests
    /\ f \in Images \/ (disk[f] = NoFile /\ EntryOf(f) = 0)
    /\ asked' = asked + 1
    /\ requests' = Append(requests, f)
    /\ doubled' = IF Pending(f) THEN doubled \cup {f} ELSE doubled
    /\ UNCHANGED <<threads, in, inputFiles, disk, found, killer, faults, unsaved, cut>>

\* The room is left or the message deleted: mx_find_room or mx_find_message of a
\* later piece returns NULL.
Forget(f) ==
    /\ alive
    /\ found' = found \ {f}
    /\ UNCHANGED <<requests, threads, in, inputFiles, disk, killer, asked, faults, history>>

-----------------------------------------------------------------------------
\* The server.

\* mx_send_file_from_server; mx_file_is_not_exist when the file is gone.
SendFileFromServer ==
    /\ requests # <<>>
    /\ requests' = Tail(requests)
    /\ LET f == Head(requests)
       IN  \/ /\ f \in Missing
              /\ in' = Append(in, [piece |-> 0, file |-> f, data |-> 0])
              /\ UNCHANGED threads
           \/ /\ threads' = Append(threads, [file |-> f, sent |-> 0])
              /\ UNCHANGED in
    /\ UNCHANGED <<inputFiles, disk, found, killer, asked, faults, history>>

\* Mutant of PieceOf: the last piece is sent like the others.
PieceNeverLast(f, i) ==
    [piece |-> IF i = 0 THEN 1 ELSE 2, file |-> f, data |-> i]

PieceOf(f, i) ==
    [piece |-> IF i = 0 THEN 1 ELSE IF i < Length[f] THEN 2 ELSE 3,
     file |-> f, data |-> i]

\* start_sending, one mx_save_send
SendPiece(t) ==
    /\ Sending(t)
    /\ in' = Append(in, PieceOf(threads[t].file, threads[t].sent))
    /\ threads' = [threads EXCEPT ![t].sent = @ + 1]
    /\ UNCHANGED <<requests, inputFiles, disk, found, killer, asked, faults, history>>

Fault ==
    /\ faults < MaxFaults
    /\ faults' = faults + 1

\* fread fails: the loop ends without a last piece.
ReadFails(t) ==
    /\ Sending(t)
    /\ threads[t].sent > 0
    /\ Fault
    /\ threads' = RemoveAt(threads, t)
    /\ cut' = cut \cup {threads[t].file}
    /\ UNCHANGED <<requests, in, inputFiles, disk, found, killer, asked, doubled, unsaved>>

\* The connection breaks and mx_reconnect_client opens another; the list of
\* files being received stays.
Break ==
    /\ alive
    /\ Fault
    /\ requests' = <<>> /\ threads' = <<>> /\ in' = <<>>
    /\ cut' = cut \cup {f \in Files : Pending(f)}
    /\ UNCHANGED <<inputFiles, disk, found, killer, asked, doubled, unsaved>>

-----------------------------------------------------------------------------
\* The input thread of the client: mx_save_file_in_client.

Take(piece) ==
    /\ alive
    /\ in # <<>>
    /\ Head(in).piece = piece
    /\ in' = Tail(in)
    /\ UNCHANGED <<requests, threads, found, asked, doubled, cut>>

\* piece -1: a line on stderr.
NotThere ==
    /\ Take(0)
    /\ UNCHANGED <<inputFiles, disk, killer, faults, unsaved>>

\* start_downloading_file_in_client: nothing when the file is in the list.
StartDownloading ==
    /\ Take(1)
    /\ LET f == Head(in).file
       IN  \/ /\ EntryOf(f) # 0
              /\ UNCHANGED <<inputFiles, disk, faults, unsaved>>
           \/ /\ EntryOf(f) = 0
              /\ inputFiles' = Append(inputFiles, [id |-> f, data |-> <<>>])
              /\ disk' = [disk EXCEPT ![f] = <<>>]
              /\ UNCHANGED <<faults, unsaved>>
           \/ /\ EntryOf(f) = 0      \* fopen fails
              /\ Fault
              /\ unsaved' = unsaved \cup {f}
              /\ UNCHANGED <<inputFiles, disk>>
    /\ UNCHANGED killer

\* add_data_to_file_client
AddData ==
    /\ Take(2)
    /\ LET i == EntryOf(Head(in).file)
       IN  inputFiles' = IF i = 0 THEN inputFiles
                         ELSE [inputFiles EXCEPT ![i].data = Append(@, Head(in).data)]
    /\ UNCHANGED <<disk, killer, faults, unsaved>>

\* mx_pop_file_list_in_client; the mutant pops the head of the list.
WithoutFirst(i) == Tail(inputFiles)

Without(i) == RemoveAt(inputFiles, i)

\* Mutant of FinalInput: the size is not checked.
FinalUnchecked ==
    /\ Take(3)
    /\ LET f == Head(in).file
           i == EntryOf(f)
       IN  IF i = 0 THEN killer' = f /\ UNCHANGED <<inputFiles, disk>>
           ELSE /\ disk' = [disk EXCEPT ![f] = Append(inputFiles[i].data, Head(in).data)]
                /\ inputFiles' = Without(i)
                /\ killer' = IF f \in Images \ found THEN f ELSE NoFile
    /\ UNCHANGED <<faults, unsaved>>

\* Mutant of FinalInput: an entry of the wrong size stays in the list.
FinalKeepsBadEntry ==
    /\ Take(3)
    /\ LET f == Head(in).file
           i == EntryOf(f)
           data == Append(inputFiles[i].data, Head(in).data)
       IN  IF i = 0 THEN killer' = f /\ UNCHANGED <<inputFiles, disk>>
           ELSE IF Len(data) # Length[f]
           THEN inputFiles' = [inputFiles EXCEPT ![i].data = data]
                /\ UNCHANGED <<disk, killer>>
           ELSE /\ disk' = [disk EXCEPT ![f] = data]
                /\ inputFiles' = Without(i)
                /\ killer' = IF f \in Images \ found THEN f ELSE NoFile
    /\ UNCHANGED <<faults, unsaved>>

\* final_file_input_client.  A last piece that has no entry makes the client exit
\* (mx_err_exit), and so does an image whose message is not found (a NULL).
FinalInput ==
    /\ Take(3)
    /\ LET f == Head(in).file
           i == EntryOf(f)
           data == Append(inputFiles[i].data, Head(in).data)
       IN  \/ /\ i = 0
              /\ killer' = f
              /\ UNCHANGED <<inputFiles, disk>>
           \/ /\ i # 0
              /\ Len(data) = Length[f]
              /\ disk' = [disk EXCEPT ![f] = data]
              /\ inputFiles' = Without(i)
              /\ killer' = IF f \in Images \ found THEN f ELSE NoFile
           \/ /\ i # 0
              /\ Len(data) # Length[f]
              /\ disk' = [disk EXCEPT ![f] = NoFile]
              /\ inputFiles' = Without(i)
              /\ UNCHANGED killer
    /\ UNCHANGED <<faults, unsaved>>

SaveFileInClient == NotThere \/ StartDownloading \/ AddData \/ FinalInput

Next ==
    \/ \E f \in Files : LoadFile(f) \/ Forget(f)
    \/ SendFileFromServer
    \/ \E t \in DOMAIN threads : SendPiece(t) \/ ReadFails(t)
    \/ Break
    \/ SaveFileInClient

Spec == Init /\ [][Next]_vars

\* server_loop, each sending thread and the client's input thread keep going.
FairSpec ==
    /\ Spec
    /\ WF_vars(SendFileFromServer)
    /\ \A t \in 1 .. MaxRequests : WF_vars(t \in DOMAIN threads /\ SendPiece(t))
    /\ WF_vars(SaveFileInClient)

-----------------------------------------------------------------------------
\* Properties.

FirstPieces(n) == [i \in 1 .. n |-> i]

\* A file on the disk that is not in the list has its size, and it is whole, its
\* pieces in order, unless it was asked for again before it was there: the pieces
\* of three downloads can be saved out of order.  A download cut and another begun
\* on top of it do no harm.
SavedIsWhole ==
    \A f \in Files :
        EntryOf(f) = 0 /\ disk[f] # NoFile =>
            /\ Len(disk[f]) = Length[f]
            /\ f \notin doubled => disk[f] = FirstPieces(Length[f])

\* The client survives every download but that of a file asked for again before
\* it was there, of one it could not open, and of an image whose message has gone;
\* the downloads that go on beside it do not matter.
OnlyRacesKill ==
    ~alive => killer \in doubled \cup unsaved \cup (Images \ found)

\* A file is not left "in progress": its entry stays only while pieces of it are
\* to come, unless a fault has cut them off.
EntriesAreAwaited ==
    \A i \in DOMAIN inputFiles :
        inputFiles[i].id \notin cut => ~alive \/ Pending(inputFiles[i].id)

\* Who asks for a file gets it, whole, if the server has it and no fault or second
\* request comes in between.
Disturbed(f) == f \in cut \cup doubled \cup unsaved

RequestIsServed ==
    \A f \in Files \ Missing :
        Pending(f) ~> \/ ~alive \/ Disturbed(f)
                      \/ disk[f] # NoFile /\ EntryOf(f) = 0
=============================================================================

------------------------------- MODULE Upload -------------------------------
(***************************************************************************)
(* Files sent to the server.  A client cuts a file into pieces and writes  *)
(* them on its connection; the server keeps a list of files being received *)
(* and announces each to its room as a message when the last piece is in.  *)
(*                                                                         *)
(* A file is its declared size and its length when it is read, in pieces;  *)
(* the bytes of upload u are the number u, so <<u, u>> is the contents of  *)
(* a whole file of two pieces.  One client for each user: its two threads  *)
(* that send files, the GTK thread and the recorder, can have two uploads  *)
(* of the user on the way at once.                                         *)
(***************************************************************************)
EXTENDS Naturals, Sequences, FiniteSets, SequencesExt

CONSTANTS
    Clients,       \* each is the user signed in on it
    Files,         \* files of the clients: a name, the size stat reports and the
                   \* length, in pieces, when the file is read
    Quoted,        \* names with a quote, which breaks the INSERT
    MaxSize,       \* bound: pieces of a file
    MaxUploads,    \* bound: uploads in one behaviour
    MaxSeconds,    \* bound: seconds of the server's clock
    MaxBreaks,     \* bound: connections broken, reads and opens failed
    NoFile

ASSUME UploadAssumption ==
    /\ {MaxSize, MaxUploads, MaxSeconds, MaxBreaks} \subseteq Nat /\ MaxSeconds > 0
    /\ \A f \in Files : {f.size, f.length} \subseteq 1 .. MaxSize
    /\ NoFile \notin Seq(Nat)

UploadIds == 1 .. MaxUploads
Names == {f.name : f \in Files}
Paths == (1 .. MaxSeconds) \X Names

\* sent counts pieces written, the first of which only opens the file.
UploadOf == [client : Clients, file : Files, sent : 0 .. MaxSize + 1, cut : BOOLEAN]
Piece == [piece : 1 .. 3, id : Clients, upload : UploadIds]

\* t_file_list; data is what has been written to file.
FileEntry == [id : Clients, path : Paths, size : 1 .. MaxSize, data : Seq(UploadIds)]
\* A row of msg_history with addition_cont 'file', made by the last piece of
\* an upload.
Announcement == [by : UploadIds, path : Paths, size : 1 .. MaxSize]

VARIABLES
    uploads,      \* what the clients send, in the order they began
    out,          \* connection of each client to the server
    connected,    \* clients whose connection is up
    inputFiles,   \* info->input_files
    disk,         \* path in ./files -> its contents, or NoFile
    announced,    \* file messages stored and broadcast
    now,          \* the second on the server's clock
    breaks,       \* counts what MaxBreaks bounds
    dirty,        \* history: users with an upload cut, lost in part or overlapped
    reused,       \* history: paths opened a second time
    refused       \* history: uploads whose file could not be opened

server == <<inputFiles, disk, announced, reused, refused>>
vars == <<uploads, out, connected, server, now, breaks, dirty>>

TypeOK ==
    /\ uploads \in Seq(UploadOf) /\ Len(uploads) <= MaxUploads
    /\ out \in [Clients -> Seq(Piece)]
    /\ connected \subseteq Clients
    /\ inputFiles \in Seq(FileEntry)
    /\ disk \in [Paths -> {NoFile} \cup Seq(UploadIds)]
    /\ announced \in Seq(Announcement)
    /\ now \in 1 .. MaxSeconds
    /\ breaks \in 0 .. MaxBreaks
    /\ dirty \subseteq Clients /\ reused \subseteq Paths
    /\ refused \subseteq UploadIds

Init ==
    /\ uploads = <<>>
    /\ out = [c \in Clients |-> <<>>]
    /\ connected = Clients
    /\ inputFiles = <<>>
    /\ disk = [p \in Paths |-> NoFile]
    /\ announced = <<>>
    /\ now = 1
    /\ breaks = 0
    /\ dirty = {} /\ reused = {} /\ refused = {}

\* The loop of send_file_data is not over.
Running(u) == ~uploads[u].cut /\ uploads[u].sent <= uploads[u].file.length
RunningOf(c) == {u \in DOMAIN uploads : uploads[u].client = c /\ Running(u)}

-----------------------------------------------------------------------------
\* The clients.

Busy(c) == \/ RunningOf(c) # {}
           \/ out[c] # <<>>
           \/ \E i \in DOMAIN inputFiles : inputFiles[i].id = c

\* open_file_to_send, mx_pick_file_to_send: the size is the one stat reports,
\* the file may be another length by the time it is read.
StartUpload(c, file) ==
    /\ Len(uploads) < MaxUploads
    /\ Cardinality(RunningOf(c)) < 2
    /\ uploads' = Append(uploads, [client |-> c, file |-> file, sent |-> 0,
                                   cut |-> FALSE])
    /\ dirty' = IF Busy(c) THEN dirty \cup {c} ELSE dirty
    /\ UNCHANGED <<out, connected, server, now, breaks>>

\* The kind of the piece that follows i others of a file: the first, a middle one,
\* the last.
KindOf(file, i) == IF i = 0 THEN 1 ELSE IF i < file.length THEN 2 ELSE 3

\* mx_send_file_from_client and send_file_data, one tls_send; a failed send is
\* not noticed.
SendPiece(u) ==
    /\ Running(u)
    /\ LET c == uploads[u].client
           i == uploads[u].sent
           p == [piece |-> KindOf(uploads[u].file, i), id |-> c, upload |-> u]
       IN  /\ uploads' = [uploads EXCEPT ![u].sent = i + 1]
           /\ out' = IF c \in connected THEN [out EXCEPT ![c] = Append(@, p)] ELSE out
           /\ dirty' = IF c \in connected THEN dirty ELSE dirty \cup {c}
    /\ UNCHANGED <<connected, server, now, breaks>>

\* fread fails: the loop ends without a last piece.
ReadFails(u) ==
    /\ Running(u)
    /\ uploads[u].sent > 0
    /\ breaks < MaxBreaks
    /\ breaks' = breaks + 1
    /\ uploads' = [uploads EXCEPT ![u].cut = TRUE]
    /\ dirty' = dirty \cup {uploads[u].client}
    /\ UNCHANGED <<out, connected, server, now>>

\* The connection breaks; work_with_client sees the end of file and drops what
\* it has not read.  The files being received stay in the list.
Break(c) ==
    /\ c \in connected
    /\ breaks < MaxBreaks
    /\ breaks' = breaks + 1
    /\ connected' = connected \ {c}
    /\ out' = [out EXCEPT ![c] = <<>>]
    /\ dirty' = IF Busy(c) THEN dirty \cup {c} ELSE dirty
    /\ UNCHANGED <<uploads, server, now>>

\* mx_reconnect_client replaces the context the uploads go on writing to.
Reconnect(c) ==
    /\ c \notin connected
    /\ connected' = connected \cup {c}
    /\ UNCHANGED <<uploads, out, server, now, breaks, dirty>>

-----------------------------------------------------------------------------
\* The server.

Receive(c, pieces) ==
    /\ out[c] # <<>>
    /\ Head(out[c]).piece \in pieces
    /\ out' = [out EXCEPT ![c] = Tail(@)]
    /\ UNCHANGED <<uploads, connected, now, dirty>>

\* set_file_name and mx_add_new_file_server: the file is opened with "w+" under
\* a name made of the second and the client's name for it.
AddNewFile(c) ==
    /\ Receive(c, {1})
    /\ LET u == Head(out[c]).upload
           path == <<now, uploads[u].file.name>>
       IN  \/ /\ disk' = [disk EXCEPT ![path] = <<>>]
              /\ inputFiles' = Append(inputFiles,
                    [id |-> Head(out[c]).id, path |-> path, size |-> uploads[u].file.size,
                     data |-> <<>>])
              /\ reused' = IF disk[path] = NoFile THEN reused ELSE reused \cup {path}
              /\ UNCHANGED <<refused, breaks>>
           \/ /\ breaks < MaxBreaks   \* fopen fails
              /\ breaks' = breaks + 1
              /\ refused' = refused \cup {u}
              /\ UNCHANGED <<disk, inputFiles, reused>>
    /\ UNCHANGED announced

\* The first entry of the list with the user's id, 0 if none; the mutant takes
\* the first of the list.
FirstEntryAny(files, id) == IF files = <<>> THEN 0 ELSE 1

FirstEntry(files, id) ==
    SelectInSeq(files, LAMBDA e : e.id = id)

\* mx_add_data_to_file_server
WithData(files, p) ==
    LET i == FirstEntry(files, p.id)
    IN  IF i = 0 THEN files ELSE [files EXCEPT ![i].data = Append(@, p.upload)]

AddData(c) ==
    /\ Receive(c, {2})
    /\ inputFiles' = WithData(inputFiles, Head(out[c]))
    /\ UNCHANGED <<disk, announced, reused, refused, breaks>>

\* What fclose leaves on disk, the data being buffered until then: another FILE
\* open on the path may have written more of it, and remove may have taken its
\* name away.
Closed(old, data) ==
    IF old = NoFile THEN NoFile
    ELSE data \o SubSeq(old, Len(data) + 1, Len(old))

\* The list without entry i; the mutant cuts the list there.
ListFrom(files, i) == SubSeq(files, i + 1, Len(files))

ListWithout(files, i) == RemoveAt(files, i)

\* Mutant of FinalFileInput: the size is not checked.
FinalUnchecked(c) ==
    /\ Receive(c, {3})
    /\ LET p == Head(out[c])
           files == WithData(inputFiles, p)
           i == FirstEntry(files, p.id)
       IN  IF i = 0 THEN UNCHANGED <<inputFiles, disk, announced>>
           ELSE /\ disk' = [disk EXCEPT ![files[i].path] = Closed(@, files[i].data)]
                /\ announced' = Append(announced, [by |-> p.upload,
                                    path |-> files[i].path, size |-> files[i].size])
                /\ inputFiles' = ListWithout(files, i)
    /\ UNCHANGED <<reused, refused, breaks>>

\* Mutant of FinalFileInput: an entry of the wrong size stays in the list.
FinalKeepsBadEntry(c) ==
    /\ Receive(c, {3})
    /\ LET p == Head(out[c])
           files == WithData(inputFiles, p)
           i == FirstEntry(files, p.id)
       IN  IF i = 0 \/ Len(files[i].data) # files[i].size
           THEN inputFiles' = files /\ UNCHANGED <<disk, announced>>
           ELSE /\ disk' = [disk EXCEPT ![files[i].path] = Closed(@, files[i].data)]
                /\ announced' = Append(announced, [by |-> p.upload,
                                    path |-> files[i].path, size |-> files[i].size])
                /\ inputFiles' = ListWithout(files, i)
    /\ UNCHANGED <<reused, refused, breaks>>

\* The last piece: mx_add_data_to_file_server and mx_final_file_input_server.  A
\* file of the wrong size is removed; so is nothing else, whoever wrote it.
FinalFileInput(c) ==
    /\ Receive(c, {3})
    /\ LET p == Head(out[c])
           files == WithData(inputFiles, p)
           i == FirstEntry(files, p.id)
           e == files[i]
       IN  \/ /\ i = 0
              /\ UNCHANGED <<inputFiles, disk, announced>>
           \/ /\ i # 0
              /\ Len(e.data) # e.size
              /\ disk' = [disk EXCEPT ![e.path] = NoFile]
              /\ inputFiles' = ListWithout(files, i)
              /\ UNCHANGED announced
           \/ /\ i # 0
              /\ Len(e.data) = e.size
              /\ disk' = [disk EXCEPT ![e.path] = Closed(@, e.data)]
              /\ announced' = IF e.path[2] \in Quoted THEN announced
                              ELSE Append(announced, [by |-> p.upload,
                                            path |-> e.path, size |-> e.size])
              /\ inputFiles' = ListWithout(files, i)
    /\ UNCHANGED <<reused, refused, breaks>>

Tick ==
    /\ now < MaxSeconds
    /\ now' = now + 1
    /\ UNCHANGED <<uploads, out, connected, server, breaks, dirty>>

Next ==
    \/ \E c \in Clients :
        \/ \E file \in Files : StartUpload(c, file)
        \/ Break(c) \/ Reconnect(c)
        \/ AddNewFile(c) \/ AddData(c) \/ FinalFileInput(c)
    \/ \E u \in DOMAIN uploads : SendPiece(u) \/ ReadFails(u)
    \/ Tick

Spec == Init /\ [][Next]_vars

-----------------------------------------------------------------------------
\* Properties.  The server finds the file a piece belongs to by the user's id
\* alone, so a user whose uploads have once overlapped or been cut is left with
\* entries that catch the pieces of later uploads.  The others must not suffer.

Whole(u) == [i \in 1 .. uploads[u].file.size |-> u]

\* The file a message announces is the file its sender sent, under its name, from
\* the first piece to the last, whatever the other users upload meanwhile.
AnnouncedIsWhole ==
    \A k \in DOMAIN announced :
        LET m == announced[k]
        IN  uploads[m.by].client \notin dirty /\ m.path \notin reused
            => m.path[2] = uploads[m.by].file.name /\ disk[m.path] = Whole(m.by)

\* Handled(u): all the pieces of u have been sent, received and handled.
Handled(u) ==
    /\ uploads[u].sent = uploads[u].file.length + 1
    /\ \A i \in DOMAIN out[uploads[u].client] :
            out[uploads[u].client][i].upload # u

\* An upload that ended is announced once if it was of the declared size, and
\* not at all otherwise.
EndedIsAnnounced ==
    \A u \in DOMAIN uploads :
        /\ Handled(u)
        /\ uploads[u].client \notin dirty
        => Cardinality({k \in DOMAIN announced : announced[k].by = u}) =
              IF /\ u \notin refused
                 /\ uploads[u].file.size = uploads[u].file.length
                 /\ uploads[u].file.name \notin Quoted
              THEN 1 ELSE 0

\* However the pieces of a user's uploads get mixed, a file that is announced has
\* the size its sender declared for it, and is there.
AnnouncedHasItsSize ==
    \A k \in DOMAIN announced :
        announced[k].path \notin reused =>
            /\ disk[announced[k].path] # NoFile
            /\ Len(disk[announced[k].path]) = announced[k].size

\* No entry, and no open FILE, outlives its upload: a user in order has at most
\* one entry, and pieces of that upload are still to come.
EntriesAreAwaited ==
    \A i, j \in DOMAIN inputFiles :
        inputFiles[i].id \notin dirty =>
            /\ inputFiles[j].id = inputFiles[i].id => i = j
            /\ \E u \in DOMAIN uploads :
                    uploads[u].client = inputFiles[i].id /\ ~Handled(u)
=============================================================================

------------------------------ MODULE RoomTabs ------------------------------
(***************************************************************************)
(* The tabs of a client's main window, and the room a message goes to.     *)
(*                                                                         *)
(* The rooms are kept twice: in info->data->rooms, where each t_room has   *)
(* the position its tab should have, and as pages of a GtkNotebook.  The   *)
(* input thread changes the positions, one room after the other, and       *)
(* leaves the pages to functions it queues with g_idle_add, which the GTK  *)
(* thread runs when it has nothing better to do.  What the user types goes *)
(* to the room whose position is the number of the page on the screen.     *)
(*                                                                         *)
(* One client from the end of mx_init_notebook to the log-out.  Which      *)
(* messages arrive is the matter of module Rooms: here a room that is in   *)
(* the list may get one or be left, one that is not may be entered.        *)
(***************************************************************************)
EXTENDS Integers, Sequences, FiniteSets, SequencesExt

CONSTANTS
    Rooms,         \* rooms the user may be in
    InitialRooms,  \* the rooms of the AUTH reply, in its order
    Permanent,     \* rooms without a Leave item in their menu: the room 0 of every
                   \* account, and direct rooms
    MaxHandled,    \* bound: messages the input thread handles
    NoRoom, NoHandler

\* A t_note queued with g_idle_add.
Note == [call : {"prepend", "reorder", "detach"}, room : Rooms, position : Nat]

\* Where the input thread is: next is the room of the list it comes to next.
Handler == [type : {"MSG", "ENTER", "LEAVE"}, room : Rooms, next : Nat,
            queued : BOOLEAN]

ASSUME TabsAssumption ==
    /\ InitialRooms \in Seq(Rooms) /\ IsInjective(InitialRooms)
    /\ Permanent \subseteq ToSet(InitialRooms) /\ Permanent # {}
    /\ MaxHandled \in Nat
    /\ NoRoom \notin Rooms /\ NoHandler \notin Handler

VARIABLES
    list,        \* info->data->rooms
    position,    \* room -> its t_room.position
    handler,     \* what the input thread is in the middle of, or NoHandler
    idle,        \* functions queued with g_idle_add
    pages,       \* children of the notebook, in the order of the tabs
    page,        \* the child on the screen, or NoRoom
    currentRoom, \* info->data->current_room, or NoRoom before the first use
    crashed,     \* a NULL room was followed
    handled      \* counts what MaxHandled bounds

inputThread == <<list, position, handler, handled>>
window == <<pages, page>>
vars == <<inputThread, idle, window, currentRoom, crashed>>

TypeOK ==
    /\ list \in Seq(Rooms) /\ IsInjective(list)
    /\ position \in [Rooms -> Nat]
    /\ handler \in Handler \cup {NoHandler}
    /\ idle \in Seq(Note)
    /\ pages \in Seq(Rooms) /\ IsInjective(pages)
    /\ page \in ToSet(pages) \cup {NoRoom}
    /\ currentRoom \in Rooms \cup {NoRoom}
    /\ crashed \in BOOLEAN
    /\ handled \in 0 .. MaxHandled

NoteFor(call, r, p) == [call |-> call, room |-> r, position |-> p]

\* mx_init_notebook has pushed the rooms, their pages are still to be added.
Init ==
    /\ list = InitialRooms
    /\ position = [r \in Rooms |->
                      IF r \in ToSet(InitialRooms)
                      THEN SelectInSeq(InitialRooms, LAMBDA q : q = r) - 1 ELSE 0]
    /\ handler = NoHandler
    /\ idle = [i \in DOMAIN InitialRooms |-> NoteFor("prepend", InitialRooms[i], i - 1)]
    /\ pages = <<>> /\ page = NoRoom
    /\ currentRoom = NoRoom
    /\ crashed = FALSE
    /\ handled = 0

-----------------------------------------------------------------------------
\* The input thread.

\* A handler that moves tabs begins.
Begin(type, r) ==
    /\ handled < MaxHandled
    /\ handled' = handled + 1
    /\ handler = NoHandler
    /\ handler' = [type |-> type, room |-> r, next |-> 1, queued |-> FALSE]
    /\ UNCHANGED <<list, position, idle, window, currentRoom, crashed>>

\* mx_input_message; mx_join_room_client and mx_direct_message_client for a room
\* that is new; mx_leave_room_client for a room of the user's own.
InputMessage(r) == r \in ToSet(list) /\ Begin("MSG", r)
EnterRoom(r) == r \notin ToSet(list) /\ Begin("ENTER", r)
LeaveRoom(r) == r \in ToSet(list) \ Permanent /\ Begin("LEAVE", r)

\* Mutant of Moved: leaving a room moves the tabs before it, not those after it.
MovedBefore(h, p) ==
    CASE h.type = "MSG" /\ p < position[h.room] -> p + 1
      [] h.type = "ENTER" -> p + 1
      [] h.type = "LEAVE" /\ p < position[h.room] -> p - 1
      [] OTHER -> p

\* The new position of a room that had p: the tabs before a room that got a
\* message make place for it, those after a room that is left close up.
Moved(h, p) ==
    CASE h.type = "MSG" /\ p < position[h.room] -> p + 1
      [] h.type = "ENTER" -> p + 1
      [] h.type = "LEAVE" /\ p > position[h.room] -> p - 1
      [] OTHER -> p

\* One round of the loop over the list.
MoveNext ==
    /\ handler # NoHandler
    /\ handler.next <= Len(list)
    /\ position' = [position EXCEPT ![list[handler.next]] = Moved(handler, @)]
    /\ handler' = [handler EXCEPT !.next = @ + 1]
    /\ UNCHANGED <<list, handled, idle, window, currentRoom, crashed>>

\* After the loop the thread queues the change of the pages.
Queue ==
    /\ handler # NoHandler
    /\ handler.next > Len(list)
    /\ ~handler.queued
    /\ LET r == handler.room
       IN  \/ /\ handler.type = "MSG"
              /\ position' = [position EXCEPT ![r] = 0]
              /\ idle' = Append(idle, NoteFor("reorder", r, 0))
              /\ handler' = NoHandler
           \/ /\ handler.type = "ENTER"
              /\ position' = [position EXCEPT ![r] = 0]
              /\ idle' = Append(idle, NoteFor("prepend", r, 0))
              /\ handler' = [handler EXCEPT !.queued = TRUE]
           \/ /\ handler.type = "LEAVE"
              /\ idle' = Append(idle, NoteFor("detach", r, 0))
              /\ handler' = [handler EXCEPT !.queued = TRUE]
              /\ UNCHANGED position
    /\ UNCHANGED <<list, handled, window, currentRoom, crashed>>

\* Then a new room is put at the end of the list (mx_push_room), and a room that
\* is left is taken out of it (pop_room_id).
Link ==
    /\ handler # NoHandler
    /\ handler.queued
    /\ list' = IF handler.type = "ENTER" THEN Append(list, handler.room)
               ELSE RemoveFirst(list, handler.room)
    /\ handler' = NoHandler
    /\ UNCHANGED <<position, handled, idle, window, currentRoom, crashed>>

-----------------------------------------------------------------------------
\* The notebook.

\* gtk_notebook_set_current_page, of which a number past the last page is ignored
Turned(to, p) == IF to < Len(p) THEN p[to + 1] ELSE page

\* The order of the tabs after a queued function has run.
MovedTo(p, r, to) ==
    LET others == RemoveFirst(p, r)
    IN  InsertAt(others, IF to > Len(others) THEN Len(others) + 1 ELSE to + 1, r)

\* Mutant of AfterNote: a room that got a message is put on the second tab.
AfterNoteSecond(p, note) ==
    CASE note.call = "prepend" -> MovedTo(p, note.room, note.position)
      [] note.call = "reorder" -> MovedTo(p, note.room, note.position + 1)
      [] note.call = "detach" -> RemoveFirst(p, note.room)

AfterNote(p, note) ==
    CASE note.call = "prepend" -> MovedTo(p, note.room, note.position)
      [] note.call = "reorder" -> MovedTo(p, note.room, note.position)
      [] note.call = "detach" -> RemoveFirst(p, note.room)

\* The page that follows when the one on the screen is removed: the next one, or
\* the one before it.
Neighbour(p, r) ==
    LET i == SelectInSeq(p, LAMBDA q : q = r)
    IN  CASE i < Len(p) -> p[i + 1]
          [] i = Len(p) /\ i > 1 -> p[i - 1]
          [] OTHER -> NoRoom

\* The GTK thread runs a queued function: mx_notebook_prepend, which turns to the
\* page, notebook_reorder or mx_notebook_detach.
RunIdle ==
    /\ ~crashed
    /\ idle # <<>>
    /\ idle' = Tail(idle)
    /\ LET note == Head(idle)
       IN  /\ pages' = AfterNote(pages, note)
           /\ page' = CASE note.call = "prepend" -> Turned(note.position, pages')
                        [] note.call = "detach" /\ page = note.room ->
                              Neighbour(pages, note.room)
                        [] OTHER -> page
    /\ UNCHANGED <<inputThread, currentRoom, crashed>>

\* The user turns to another page.
SelectPage(r) ==
    /\ ~crashed
    /\ r \in ToSet(pages) \ {page}
    /\ page' = r
    /\ UNCHANGED <<inputThread, idle, pages, currentRoom, crashed>>

\* mx_direct_message_client for a room that is in the list already: the input
\* thread turns to the page with the number of its position.
ShowRoom(r) ==
    /\ ~crashed
    /\ handled < MaxHandled
    /\ handled' = handled + 1
    /\ handler = NoHandler
    /\ r \in ToSet(list)
    /\ page' = Turned(position[r], pages)
    /\ UNCHANGED <<list, position, handler, idle, pages, currentRoom, crashed>>

\* gtk_notebook_get_current_page
PageNumber == SelectInSeq(pages, LAMBDA q : q = page) - 1

\* mx_find_room_position: 0 for NULL
FoundAt == SelectInSeq(list, LAMBDA r : position[r] = PageNumber)

\* mx_send_callback and mx_item_callback, mx_choose_file_callback and
\* mx_record_callback: the room of the page on the screen is looked up, in one
\* step, since a walk that a handler overtakes finds what it finds before or after.
ChooseRoom ==
    /\ ~crashed
    /\ \/ /\ FoundAt = 0
          /\ crashed' = TRUE
          /\ UNCHANGED currentRoom
       \/ /\ FoundAt # 0
          /\ currentRoom' = list[FoundAt]
          /\ UNCHANGED crashed
    /\ UNCHANGED <<inputThread, idle, window>>

InputThread ==
    /\ ~crashed
    /\ \/ \E r \in Rooms : InputMessage(r) \/ EnterRoom(r) \/ LeaveRoom(r)
       \/ MoveNext \/ Queue \/ Link

Next ==
    \/ InputThread
    \/ RunIdle
    \/ \E r \in Rooms : SelectPage(r) \/ ShowRoom(r)
    \/ ChooseRoom

Spec == Init /\ [][Next]_vars

-----------------------------------------------------------------------------
\* Properties.

\* The pages after each of the functions in the queue.
PagesAfter[n \in 0 .. Len(idle)] ==
    IF n = 0 THEN pages ELSE AfterNote(PagesAfter[n - 1], idle[n])

\* The positions are what the pages will be when the queue has been run: no
\* sequence of messages, rooms entered and rooms left, handled while the GTK
\* thread is behind by any number of changes, sets the two apart.
PagesFollowPositions ==
    handler = NoHandler =>
        LET final == PagesAfter[Len(idle)]
        IN  /\ ToSet(final) = ToSet(list) /\ Len(final) = Len(list)
            /\ \A i \in DOMAIN final : position[final[i]] = i - 1

\* What the user sends goes to the room on the screen, and finds one, whenever
\* no change of the tabs is under way; only while one is may it go elsewhere.
Settled == handler = NoHandler /\ idle = <<>>

SentToRoomOnScreen ==
    [][ChooseRoom /\ Settled => ~crashed' /\ currentRoom' = page]_vars
=============================================================================

-------------------------------- MODULE ShmChat --------------------------------
(***************************************************************************)
(* The chat of "14-shared memory/2": a server that makes a room in shared  *)
(* memory, and clients that attach to it, take a slot, write texts into a  *)
(* ring of SLOTS and count them.  Nothing is locked, so a step is one      *)
(* access to the shared memory; strncpy of a text is two, with the text    *)
(* TORN in between.  A client is a main thread and a thread that polls     *)
(* msg_count and draws; the server makes a new room each time it starts,   *)
(* and clients stay in the room they attached to.                          *)
(***************************************************************************)
EXTENDS Naturals, FiniteSetsExt, Sequences

CONSTANTS NClients,  \* client processes
          SLOTS,     \* MAX_CLIENTS, the slots for users and for texts: 10
          MaxActs,   \* bound: starts of clients and lines typed, together
          MaxRooms   \* bound: starts of the server

ASSUME ClientsAssumption == NClients \in Nat
ASSUME SlotsAssumption   == SLOTS \in Nat \ {0}
ASSUME BoundsAssumption  == MaxActs \in Nat /\ MaxRooms \in Nat

Clients == 1 .. NClients
Rooms   == 1 .. MaxRooms
Slots   == 0 .. SLOTS - 1

VARIABLES
  made,     \* rooms made so far; room number `made` has the key
  keyed,    \* the room with the key exists: shmget finds it
  fresh,    \* the server has still to initialize it
  room,     \* the shared segments: the struct ChatRoom of each
  cl,       \* the clients, see Off
  acts,     \* texts begun so far, which gives them their numbers
  joined,   \* history: clients whose welcome has been counted
  spoilt,   \* history: rooms in which two posts overlapped, or cleared in use
  clashed   \* history: rooms in which two clients chose one slot, or cleared in use
serverVars == <<made, keyed, fresh>>
vars == <<serverVars, room, cl, acts, joined, spoilt, clashed>>

EMPTY  == <<>>
TORN   == <<0>>
NoSlot == SLOTS

FreshRoom == [name |-> [i \in Slots |-> {}], active |-> [i \in Slots |-> FALSE],
              message |-> [i \in Slots |-> EMPTY], msg_count |-> 0]

\* pc and thread: where main and receive_messages are; at: the room attached to;
\* slot: the i of register_client; text, idx, got: the number of the text it
\* writes, its index, and the msg_count it is about to increment; last:
\* last_msg_count; users: the names in user_win.
Off == [pc |-> "off", at |-> 0, slot |-> NoSlot, text |-> 0, idx |-> 0, got |-> 0,
        thread |-> "none", last |-> 0, users |-> {}]

Init ==
  /\ made = 0 /\ keyed = FALSE /\ fresh = FALSE
  /\ room = [r \in Rooms |-> FreshRoom]
  /\ cl = [c \in Clients |-> Off] /\ acts = 0
  /\ joined = {} /\ spoilt = {} /\ clashed = {}

Room(c) == room[cl[c].at]
Peers(c, pcs) == {d \in Clients \ {c} : cl[d].at = cl[c].at /\ cl[d].pc \in pcs}
RoomsOf(D)    == {cl[d].at : d \in D}
ActiveUsers(c) == UNION {Room(c).name[i] : i \in {j \in Slots : Room(c).active[j]}}
-------------------------------------------------------------------------------
(***************************************************************************)
(* The server.                                                             *)
(***************************************************************************)
\* A server starts: shmget of the room with the key and its removal, shmget of a
\* new one, shmat.  A server that dies just takes no further step.
MakeRoom ==
  /\ made < MaxRooms
  /\ made' = made + 1 /\ keyed' = TRUE /\ fresh' = TRUE
  /\ UNCHANGED <<room, cl, acts, joined, spoilt, clashed>>

\* A client may have attached already, and its slot or its text is wiped.
initialize_chat_room ==
  /\ fresh /\ fresh' = FALSE
  /\ room' = [room EXCEPT ![made] = FreshRoom]
  /\ spoilt' = spoilt \cup {r \in Rooms : room'[r] # room[r]}
  /\ clashed' = clashed \cup {r \in Rooms : room'[r] # room[r]}
  /\ UNCHANGED <<made, keyed, cl, acts, joined>>

\* SIGINT, once its handler is installed; those attached keep the room.
cleanup ==
  /\ keyed /\ ~fresh /\ keyed' = FALSE
  /\ UNCHANGED <<made, fresh, room, cl, acts, joined, spoilt, clashed>>
-------------------------------------------------------------------------------
(***************************************************************************)
(* A client's main thread.                                                 *)
(***************************************************************************)
Goes(c, from, to) == cl[c].pc = from /\ cl' = [cl EXCEPT ![c].pc = to]

\* c begins a text, a welcome or a line.  Client 1 is the first to come, which
\* only names it.
Begins(c) == acts < MaxActs /\ c <= acts + 1 /\ acts' = acts + 1

\* Without a room shmat fails, and register_client reads through the pointer -1:
\* the client is gone before it has done anything.
Attach(c) ==
  /\ cl[c].pc = "off" /\ keyed /\ Begins(c)
  /\ cl' = [cl EXCEPT ![c] = [Off EXCEPT !.pc = "scan", !.at = made, !.text = acts']]
  /\ UNCHANGED <<serverVars, room, joined, spoilt, clashed>>

\* register_client: the first slot that is not active.
FindSlot(c) ==
  /\ cl[c].pc = "scan"
  /\ \E i \in Slots :
       /\ ~Room(c).active[i] /\ \A j \in 0 .. i - 1 : Room(c).active[j]
       /\ cl' = [cl EXCEPT ![c].pc = "take", ![c].slot = i]
       /\ clashed' = clashed \cup RoomsOf({d \in Peers(c, {"take"}) : cl[d].slot = i})
  /\ UNCHANGED <<serverVars, room, acts, joined, spoilt>>

\* Every slot is taken: the client goes on without one, and without a welcome.
NoFreeSlot(c) ==
  /\ Goes(c, "scan", "list")
  /\ \A i \in Slots : Room(c).active[i]
  /\ UNCHANGED <<serverVars, room, acts, joined, spoilt, clashed>>

TakeSlotAs(c, active) ==
  /\ Goes(c, "take", "index")
  /\ room' = [room EXCEPT ![cl[c].at].name[cl[c].slot] = {c}, ![cl[c].at].active[cl[c].slot] = active]
  /\ UNCHANGED <<serverVars, acts, joined, spoilt, clashed>>

ForgetActive(c) == TakeSlotAs(c, FALSE)   \* mutant: the slot stays free

\* The name, which nobody reads while the slot is free, then active.
TakeSlot(c) == TakeSlotAs(c, TRUE)

WriteAt(c, i) ==
  /\ cl[c].pc = "index"
  /\ cl' = [cl EXCEPT ![c].pc = "copy", ![c].idx = i]
  /\ spoilt' = spoilt \cup RoomsOf(Peers(c, {"copy", "copying", "fetch", "store"}))
  /\ UNCHANGED <<serverVars, room, acts, joined, clashed>>

RawIndex(c)   == WriteAt(c, Room(c).msg_count)               \* mutant: no modulo
IndexAfter(c) == WriteAt(c, (Room(c).msg_count + 1) % SLOTS)   \* mutant: one too far

\* The index of the text, msg_count % MAX_CLIENTS.
LoadIndex(c) == WriteAt(c, Room(c).msg_count % SLOTS)

StartCopy(c) ==
  /\ Goes(c, "copy", "copying")
  /\ room' = [room EXCEPT ![cl[c].at].message[cl[c].idx] = TORN]
  /\ UNCHANGED <<serverVars, acts, joined, spoilt, clashed>>

\* Two strncpy at once may leave bytes of both.
EndCopy(c) ==
  /\ Goes(c, "copying", "fetch")
  /\ \E text \in {<<c, cl[c].text>>} \cup {TORN : r \in spoilt \cap {cl[c].at}} :
       room' = [room EXCEPT ![cl[c].at].message[cl[c].idx] = text]
  /\ UNCHANGED <<serverVars, acts, joined, spoilt, clashed>>

\* msg_count++ reads and writes.
FetchCount(c) ==
  /\ cl[c].pc = "fetch"
  /\ cl' = [cl EXCEPT ![c].pc = "store", ![c].got = Room(c).msg_count, ![c].idx = 0]
  /\ UNCHANGED <<serverVars, room, acts, joined, spoilt, clashed>>

StoreCount(c) ==
  /\ Goes(c, "store", "list")
  /\ room' = [room EXCEPT ![cl[c].at].msg_count = cl[c].got + 1]
  /\ joined' = IF cl[c].thread = "none" THEN joined \cup {c} ELSE joined
  /\ UNCHANGED <<serverVars, acts, spoilt, clashed>>

\* main draws the list itself; after the first time it starts the thread.
ListUsers(c) ==
  /\ cl[c].pc = "list"
  /\ cl' = [cl EXCEPT ![c].pc = "chat", ![c].users = ActiveUsers(c), ![c].got = 0,
                      ![c].thread = IF @ = "none" THEN "poll" ELSE @]
  /\ UNCHANGED <<serverVars, room, acts, joined, spoilt, clashed>>

\* A line of at least one character: send_message.
Type(c) ==
  /\ cl[c].pc = "chat" /\ Begins(c)
  /\ cl' = [cl EXCEPT ![c].pc = "index", ![c].text = acts']
  /\ UNCHANGED <<serverVars, room, joined, spoilt, clashed>>

\* SIGINT or a kill, at any moment.  The slot is not given back; the client may
\* be started again.
Leave(c) ==
  /\ cl[c].pc # "off"
  /\ cl' = [cl EXCEPT ![c] = Off] /\ joined' = joined \ {c}
  /\ UNCHANGED <<serverVars, room, acts, spoilt, clashed>>

MainStep(c) ==
  \/ FindSlot(c) \/ NoFreeSlot(c) \/ TakeSlot(c)
  \/ LoadIndex(c) \/ StartCopy(c) \/ EndCopy(c) \/ FetchCount(c) \/ StoreCount(c) \/ ListUsers(c)
-------------------------------------------------------------------------------
(***************************************************************************)
(* A client's thread receive_messages.                                     *)
(***************************************************************************)
Poll(c) ==
  /\ cl[c].thread = "poll" /\ Room(c).msg_count # cl[c].last
  /\ cl' = [cl EXCEPT ![c].thread = "draw", ![c].last = Room(c).msg_count]
  /\ UNCHANGED <<serverVars, room, acts, joined, spoilt, clashed>>

DrawTextsOnly(c) ==   \* mutant: no update_user_list
  /\ cl[c].thread = "draw" /\ cl' = [cl EXCEPT ![c].thread = "poll"]
  /\ UNCHANGED <<serverVars, room, acts, joined, spoilt, clashed>>

\* The texts, then update_user_list.
Draw(c) ==
  /\ cl[c].thread = "draw"
  /\ cl' = [cl EXCEPT ![c].thread = "poll", ![c].users = ActiveUsers(c)]
  /\ UNCHANGED <<serverVars, room, acts, joined, spoilt, clashed>>

receive_messages(c) == Poll(c) \/ Draw(c)
-------------------------------------------------------------------------------
Next ==
  \/ MakeRoom \/ initialize_chat_room \/ cleanup
  \/ \E c \in Clients : Attach(c) \/ MainStep(c) \/ Type(c) \/ Leave(c) \/ receive_messages(c)

Spec == Init /\ [][Next]_vars

\* A client in the middle of something goes on, and its thread polls on.  Nobody
\* has to come, to type or to leave, nor has the server to start or to stop.
FairSpec == Spec /\ \A c \in Clients : WF_vars(MainStep(c)) /\ WF_vars(receive_messages(c))
-------------------------------------------------------------------------------
(***************************************************************************)
(* Properties.                                                             *)
(***************************************************************************)
Texts == Clients \X (1 .. MaxActs)

\* The type invariant: indices stay in the ring, and a client that is past
\* shmat is in a room the server has made.
TypeOK ==
  /\ made \in 0 .. MaxRooms /\ keyed \in BOOLEAN /\ fresh \in BOOLEAN /\ (keyed => made > 0)
  /\ room \in [Rooms -> [name : [Slots -> {{}} \cup {{c} : c \in Clients}], active : [Slots -> BOOLEAN],
                         message : [Slots -> Texts \cup {EMPTY, TORN}], msg_count : 0 .. MaxActs]]
  /\ cl \in [Clients ->
       [pc : {"off", "scan", "take", "index", "copy", "copying", "fetch", "store", "list", "chat"},
        at : 0 .. made, slot : Slots \cup {NoSlot}, text : 0 .. acts, idx : Slots, got : 0 .. MaxActs,
        thread : {"none", "poll", "draw"}, last : 0 .. MaxActs, users : SUBSET Clients]]
  /\ \A c \in Clients : /\ cl[c].at = 0 <=> cl[c] = Off
                        /\ cl[c].pc = "take" => cl[c].slot \in Slots
  /\ acts \in 0 .. MaxActs
  /\ joined \subseteq Clients /\ spoilt \subseteq Rooms /\ clashed \subseteq Rooms

\* Who has registered (lines 89-94) keeps the slot with its name while it stays,
\* unless another client chose the slot between its test of `active` and its
\* writing it, or initialize_chat_room came late.
SlotKept ==
  \A c \in Clients :
    cl[c].slot # NoSlot /\ cl[c].pc # "take" /\ cl[c].at \notin clashed =>
      Room(c).active[cl[c].slot] /\ Room(c).name[cl[c].slot] = {c}

\* The latest SLOTS - 1 texts of a room, read off the ring: the next slot may
\* be half overwritten before the counter moves.
Recent(r) ==
  LET n == Min({room[r].msg_count, SLOTS - 1})
  IN  [j \in 1 .. n |-> room[r].message[(room[r].msg_count - n + j - 1) % SLOTS]]

Log == INSTANCE RoomLog WITH
  Keep   <- SLOTS - 1,
  length <- [r \in Rooms |-> IF r \in spoilt THEN 0 ELSE room[r].msg_count],
  recent <- [r \in Rooms |-> IF r \in spoilt THEN <<>> ELSE Recent(r)]

\* As long as no two posts of a room overlap (lines 84-86 and 97-99), the ring and
\* its counter are a log: each post counts once, is whole, and is kept while
\* SLOTS - 1 others follow, whoever dies in the middle of a post.
RoomIsLog == Log!Spec

\* A client that stays sees what is posted: whenever posting pauses its thread has
\* caught up with the counter (line 67), and who has joined is on its list (lines
\* 105-113).  Only posts that overlapped can set the counter back to a value the
\* thread has seen, and only a clash can take a name off the list.
EveryoneSees ==
  \A c \in Clients : []<>(
    cl[c].pc = "chat" /\ cl[c].at \notin spoilt \cup clashed =>
      /\ cl[c].last = Room(c).msg_count
      /\ {d \in joined : cl[d].at = cl[c].at} \subseteq cl[c].users)
===============================================================================

---------------------------- MODULE ShmChat_proofs ----------------------------
(***************************************************************************)
(* Proofs about ShmChat, for every number of clients, slots, rooms and     *)
(* texts: its type invariant, that a slot taken without a clash is kept,   *)
(* and that a room in which no two posts overlap is a log.                 *)
(***************************************************************************)
EXTENDS ShmChat, SequenceFacts

(***************************************************************************)
(* The inductive invariant.                                                *)
(***************************************************************************)
Posting(c) == cl[c].pc \in {"copy", "copying", "fetch", "store"}

\* The clients whose text has not been counted.
Busy == {c \in Clients : cl[c].pc \in {"scan", "take", "index"} \/ Posting(c)}

\* No more texts are counted than have been begun, and each client that is busy
\* still has one of those to count.
Budget ==
  /\ \A r \in Rooms : room[r].msg_count + Cardinality(Busy) <= acts
  /\ \A c \in Clients : cl[c].pc = "store" => cl[c].got + Cardinality(Busy) <= acts

\* No two clients have chosen the same slot of a room without a clash.
SlotsDiffer ==
  \A c, d \in Clients :
    c # d /\ cl[c].at = cl[d].at /\ cl[c].at \notin clashed /\ cl[c].slot # NoSlot =>
      cl[d].slot # cl[c].slot

\* In a room without overlap there is one post at a time: it writes at the index
\* of the counter, and counts what it has written.
OnePost ==
  \A c \in Clients : Posting(c) /\ cl[c].at \notin spoilt =>
    /\ \A d \in Clients : Posting(d) /\ cl[d].at = cl[c].at => d = c
    /\ cl[c].pc # "store" => cl[c].idx = Room(c).msg_count % SLOTS
    /\ cl[c].pc = "store" => cl[c].got = Room(c).msg_count
    /\ cl[c].pc \in {"fetch", "store"} =>
         Room(c).message[Room(c).msg_count % SLOTS] = <<c, cl[c].text>>

\* A text has its number from the start.
Numbered == \A c \in Clients : cl[c].pc # "off" => cl[c].text > 0

Inv == TypeOK /\ Budget /\ Numbered /\ SlotKept /\ SlotsDiffer /\ OnePost

(***************************************************************************)
(* The state of a client and of a room.                                    *)
(***************************************************************************)
Pcs == {"off", "scan", "take", "index", "copy", "copying", "fetch", "store", "list", "chat"}

ClientStates(m, a) ==
  [pc : Pcs, at : 0 .. m, slot : Slots \cup {NoSlot}, text : 0 .. a, idx : Slots, got : 0 .. MaxActs,
   thread : {"none", "poll", "draw"}, last : 0 .. MaxActs, users : SUBSET Clients]

Names == {{}} \cup {{c} : c \in Clients}

RoomStates ==
  [name : [Slots -> Names], active : [Slots -> BOOLEAN],
   message : [Slots -> Texts \cup {EMPTY, TORN}], msg_count : 0 .. MaxActs]

LEMMA SlotFacts ==
  /\ 0 \in Slots /\ NoSlot \notin Slots /\ SLOTS \in Nat \ {0} /\ Slots \subseteq Nat
  /\ \A n \in Nat : n % SLOTS \in Slots
BY SlotsAssumption DEF Slots, NoSlot

\* The types of the clients and the rooms, one client and one room at a time.
LEMMA StateTypes ==
  /\ TypeOK => /\ cl \in [Clients -> ClientStates(made, acts)]
               /\ room \in [Rooms -> RoomStates]
               /\ made \in Nat /\ acts \in Nat /\ acts <= MaxActs /\ made <= MaxRooms
  /\ Off \in ClientStates(0, 0) /\ Off.pc = "off" /\ Off.at = 0 /\ Off.slot = NoSlot
  /\ FreshRoom \in RoomStates
<1>1. TypeOK => /\ cl \in [Clients -> ClientStates(made, acts)]
                /\ room \in [Rooms -> RoomStates]
                /\ made \in Nat /\ acts \in Nat /\ acts <= MaxActs /\ made <= MaxRooms
  BY BoundsAssumption DEF TypeOK, ClientStates, RoomStates, Names, Pcs
<1>2. Off \in ClientStates(0, 0) /\ Off.pc = "off" /\ Off.at = 0 /\ Off.slot = NoSlot
  BY SlotFacts, BoundsAssumption DEF Off, ClientStates, Pcs
<1>3. FreshRoom \in RoomStates
  BY BoundsAssumption DEF FreshRoom, RoomStates, Names
<1> QED
  BY <1>1, <1>2, <1>3

\* A client that is there is in a room.
LEMMA InARoom ==
  ASSUME TypeOK, NEW c \in Clients, cl[c].pc # "off" \/ cl[c].thread # "none"
  PROVE  cl[c].at \in Rooms /\ cl[c].at # 0 /\ Room(c) \in RoomStates
<1>1. cl[c].at # 0
  BY DEF TypeOK, Off
<1>2. cl[c].at \in 0 .. made /\ made \in Nat /\ made <= MaxRooms /\ MaxRooms \in Nat
  BY StateTypes, BoundsAssumption DEF ClientStates
<1>3. cl[c].at \in Rooms
  BY <1>1, <1>2 DEF Rooms
<1> QED
  BY <1>1, <1>3, StateTypes DEF Room

\* TypeOK in terms of those states.
Typed ==
  /\ made \in 0 .. MaxRooms /\ keyed \in BOOLEAN /\ fresh \in BOOLEAN /\ (keyed => made > 0)
  /\ room \in [Rooms -> RoomStates] /\ cl \in [Clients -> ClientStates(made, acts)]
  /\ \A c \in Clients : /\ cl[c].at = 0 <=> cl[c] = Off
                        /\ cl[c].pc = "take" => cl[c].slot \in Slots
  /\ acts \in 0 .. MaxActs
  /\ joined \subseteq Clients /\ spoilt \subseteq Rooms /\ clashed \subseteq Rooms

LEMMA TypedIsTypeOK == Typed <=> TypeOK
BY DEF Typed, TypeOK, ClientStates, RoomStates, Names, Pcs

LEMMA TypedIsTypeOKNext == (Typed <=> TypeOK)'
BY TypedIsTypeOK, PTL

\* What a step of c may do to the clients: their states stay states, and the
\* others keep theirs.
Moves(c) ==
  /\ cl' \in [Clients -> ClientStates(made, acts')]
  /\ \A d \in Clients \ {c} : cl'[d] = cl[d]

\* A step of one client that leaves the rooms rooms keeps the types.
LEMMA Retyped ==
  ASSUME TypeOK, NEW c \in Clients, Moves(c),
         cl'[c].at # 0 \/ cl'[c] = Off, cl'[c].pc = "take" => cl'[c].slot \in Slots,
         UNCHANGED serverVars, room' \in [Rooms -> RoomStates], acts' \in 0 .. MaxActs,
         joined' \subseteq Clients, spoilt' \subseteq Rooms, clashed' \subseteq Rooms
  PROVE  TypeOK'
<1>1. cl' \in [Clients -> ClientStates(made', acts')]
  BY DEF Moves, serverVars
<1>2. \A d \in Clients : /\ cl'[d].at = 0 <=> cl'[d] = Off
                         /\ cl'[d].pc = "take" => cl'[d].slot \in Slots
  BY StateTypes DEF TypeOK, Moves
<1>3. /\ made' \in 0 .. MaxRooms /\ keyed' \in BOOLEAN /\ fresh' \in BOOLEAN /\ (keyed' => made' > 0)
  BY DEF TypeOK, serverVars
<1> QED
  BY <1>1, <1>2, <1>3, TypedIsTypeOKNext DEF Typed

\* The server keeps the types.
LEMMA ServerTypes ==
  ASSUME TypeOK, MakeRoom \/ initialize_chat_room \/ cleanup
  PROVE  TypeOK'
<1>1. /\ cl \in [Clients -> ClientStates(made, acts)] /\ room \in [Rooms -> RoomStates]
      /\ made \in Nat /\ FreshRoom \in RoomStates
  BY StateTypes
<1>2. CASE MakeRoom
  <2>1. made' = made + 1 /\ made' \in 0 .. MaxRooms
    BY <1>1, <1>2, BoundsAssumption DEF MakeRoom
  <2>2. ClientStates(made, acts) \subseteq ClientStates(made', acts)
    BY <1>1, <2>1 DEF ClientStates
  <2>3. cl' \in [Clients -> ClientStates(made', acts')]
    BY <1>1, <1>2, <2>2 DEF MakeRoom
  <2> QED
    BY <1>1, <1>2, <2>1, <2>3, TypedIsTypeOKNext DEF TypeOK, Typed, MakeRoom
<1>3. CASE initialize_chat_room
  BY <1>1, <1>3, TypedIsTypeOKNext DEF TypeOK, Typed, initialize_chat_room
<1>4. CASE cleanup
  BY <1>1, <1>4, TypedIsTypeOKNext DEF TypeOK, Typed, cleanup
<1> QED
  BY <1>2, <1>3, <1>4


\* The fields of a client's state, and the states that come from changing some.
LEMMA StateFields ==
  ASSUME NEW m \in Nat, NEW a \in Nat, NEW k \in ClientStates(m, a)
  PROVE  /\ k.pc \in Pcs /\ k.at \in 0 .. m /\ k.slot \in Slots \cup {NoSlot} /\ k.text \in 0 .. a /\ k.idx \in Slots
         /\ k.got \in 0 .. MaxActs /\ k.thread \in {"none", "poll", "draw"} /\ k.last \in 0 .. MaxActs
         /\ k.users \in SUBSET Clients
         /\ \A p \in Pcs : [k EXCEPT !.pc = p] \in ClientStates(m, a)
         /\ \A p \in Pcs, s \in Slots : [k EXCEPT !.pc = p, !.slot = s] \in ClientStates(m, a)
         /\ \A p \in Pcs, i \in Slots : [k EXCEPT !.pc = p, !.idx = i] \in ClientStates(m, a)
         /\ \A p \in Pcs, i \in Slots, g \in 0 .. MaxActs :
              [k EXCEPT !.pc = p, !.got = g, !.idx = i] \in ClientStates(m, a)
         /\ \A p \in Pcs, g \in 0 .. MaxActs, t \in {"none", "poll", "draw"}, u \in SUBSET Clients :
              [k EXCEPT !.pc = p, !.users = u, !.got = g, !.thread = t] \in ClientStates(m, a)
         /\ \A t \in {"none", "poll", "draw"}, n \in 0 .. MaxActs :
              [k EXCEPT !.thread = t, !.last = n] \in ClientStates(m, a)
         /\ \A t \in {"none", "poll", "draw"}, u \in SUBSET Clients :
              [k EXCEPT !.thread = t, !.users = u] \in ClientStates(m, a)
         /\ \A p \in Pcs : [k EXCEPT !.pc = p, !.text = a + 1] \in ClientStates(m, a + 1)
         /\ \A p \in Pcs : [k EXCEPT !.pc = p, !.at = m, !.text = a + 1] \in ClientStates(m, a + 1)
<1>1. /\ k.pc \in Pcs /\ k.at \in 0 .. m /\ k.slot \in Slots \cup {NoSlot} /\ k.text \in 0 .. a /\ k.idx \in Slots
      /\ k.got \in 0 .. MaxActs /\ k.thread \in {"none", "poll", "draw"} /\ k.last \in 0 .. MaxActs
      /\ k.users \in SUBSET Clients
  BY DEF ClientStates
<1>2. k = [pc |-> k.pc, at |-> k.at, slot |-> k.slot, text |-> k.text, idx |-> k.idx, got |-> k.got,
           thread |-> k.thread, last |-> k.last, users |-> k.users]
  BY DEF ClientStates
<1> DEFINE b == a + 1
<1>3. b \in 0 .. b /\ m \in 0 .. m /\ k.text \in 0 .. b
  BY <1>1
<1> HIDE DEF b
<1>4. \A p \in Pcs : [k EXCEPT !.pc = p, !.text = b] \in ClientStates(m, b)
  BY <1>1, <1>2, <1>3 DEF ClientStates
<1>5. \A p \in Pcs : [k EXCEPT !.pc = p, !.at = m, !.text = b] \in ClientStates(m, b)
  BY <1>1, <1>2, <1>3 DEF ClientStates
<1> QED
  BY <1>1, <1>2, <1>4, <1>5 DEF ClientStates, b


(***************************************************************************)
(* What the steps of a client do to its state.                             *)
(***************************************************************************)
\* c gets the state k, in a step that begins a text or in one that does not.
LEMMA MovesTo ==
  ASSUME TypeOK, NEW c \in Clients, NEW k, cl' = [cl EXCEPT ![c] = k],
         \/ acts' = acts /\ k \in ClientStates(made, acts)
         \/ acts' = acts + 1 /\ k \in ClientStates(made, acts + 1)
  PROVE  Moves(c) /\ cl'[c] = k
<1>1. cl \in [Clients -> ClientStates(made, acts)] /\ acts \in Nat
  BY StateTypes
<1>2. k \in ClientStates(made, acts') /\ 0 .. acts \subseteq 0 .. acts'
  BY <1>1
<1>3. ClientStates(made, acts) \subseteq ClientStates(made, acts')
  BY <1>2 DEF ClientStates
<1> QED
  BY <1>1, <1>2, <1>3 DEF Moves

LEMMA AttachDoes ==
  ASSUME TypeOK, NEW c \in Clients, Attach(c)
  PROVE  /\ Moves(c) /\ acts' = acts + 1 /\ acts < MaxActs
         /\ cl'[c].at = made /\ made # 0 /\ cl'[c].slot = NoSlot /\ cl'[c].text = acts + 1
         /\ cl[c].pc = "off" /\ cl'[c].pc = "scan"
<1>1. /\ cl \in [Clients -> ClientStates(made, acts)] /\ made \in Nat /\ acts \in Nat
      /\ Off \in ClientStates(0, 0) /\ Off.slot = NoSlot
  BY StateTypes
<1>2. acts' = acts + 1 /\ acts < MaxActs /\ made # 0 /\ cl[c].pc = "off" /\ "scan" \in Pcs
  BY DEF Attach, Begins, TypeOK, Pcs
<1> DEFINE k == [Off EXCEPT !.pc = "scan", !.at = made, !.text = acts + 1]
<1>3. k \in ClientStates(made, acts + 1)
  <2>1. Off \in ClientStates(made, acts)
    BY <1>1 DEF ClientStates
  <2> QED
    BY <1>1, <1>2, <2>1, StateFields
<1>4. k.at = made /\ k.slot = NoSlot /\ k.pc = "scan" /\ k.text = acts + 1
  BY <1>1 DEF ClientStates
<1>5. cl' = [cl EXCEPT ![c] = k]
  BY <1>2 DEF Attach
<1> HIDE DEF k
<1>6. Moves(c) /\ cl'[c] = k
  BY <1>1, <1>2, <1>3, <1>5, MovesTo
<1> QED
  BY <1>2, <1>4, <1>6

LEMMA TypeDoes ==
  ASSUME TypeOK, NEW c \in Clients, Type(c)
  PROVE  /\ Moves(c) /\ acts' = acts + 1 /\ acts < MaxActs
         /\ cl'[c].at = cl[c].at /\ cl'[c].slot = cl[c].slot /\ cl'[c].text = acts + 1
         /\ cl[c].pc = "chat" /\ cl'[c].pc = "index"
<1>1. /\ cl[c] \in ClientStates(made, acts) /\ cl \in [Clients -> ClientStates(made, acts)]
      /\ made \in Nat /\ acts \in Nat
  BY StateTypes
<1>2. acts' = acts + 1 /\ acts < MaxActs /\ cl[c].pc = "chat" /\ "index" \in Pcs
  BY DEF Type, Begins, Pcs
<1> DEFINE k == [cl[c] EXCEPT !.pc = "index", !.text = acts + 1]
<1>3. k \in ClientStates(made, acts + 1)
  BY <1>1, <1>2, StateFields
<1>4. k.at = cl[c].at /\ k.slot = cl[c].slot /\ k.pc = "index" /\ k.text = acts + 1
  BY <1>1 DEF ClientStates
<1>5. cl' = [cl EXCEPT ![c] = k]
  BY <1>1, <1>2 DEF Type, ClientStates
<1> HIDE DEF k
<1>6. Moves(c) /\ cl'[c] = k
  BY <1>1, <1>2, <1>3, <1>5, MovesTo
<1> QED
  BY <1>2, <1>4, <1>6

LEMMA LeaveDoes ==
  ASSUME TypeOK, NEW c \in Clients, Leave(c)
  PROVE  Moves(c) /\ acts' = acts /\ cl'[c] = Off
<1>1. /\ cl \in [Clients -> ClientStates(made, acts)] /\ made \in Nat /\ acts \in Nat
      /\ Off \in ClientStates(0, 0)
  BY StateTypes
<1>2. Off \in ClientStates(made, acts)
  BY <1>1 DEF ClientStates
<1>3. acts' = acts /\ cl' = [cl EXCEPT ![c] = Off]
  BY DEF Leave
<1> QED
  BY <1>2, <1>3, MovesTo

\* The other steps keep the room, and the text.
Stays(c) == Moves(c) /\ acts' = acts /\ cl'[c].at = cl[c].at /\ cl'[c].text = cl[c].text

\* A step that only moves the pc.
LEMMA GoesDoes ==
  ASSUME TypeOK, NEW c \in Clients, NEW from, NEW to \in Pcs, Goes(c, from, to), acts' = acts
  PROVE  /\ Stays(c) /\ cl[c].pc = from /\ cl'[c].pc = to
         /\ cl'[c].slot = cl[c].slot /\ cl'[c].idx = cl[c].idx /\ cl'[c].got = cl[c].got
<1>1. /\ cl[c] \in ClientStates(made, acts) /\ cl \in [Clients -> ClientStates(made, acts)]
      /\ made \in Nat /\ acts \in Nat
  BY StateTypes
<1> DEFINE k == [cl[c] EXCEPT !.pc = to]
<1>2. k \in ClientStates(made, acts)
  BY <1>1, StateFields
<1>3. /\ k.pc = to /\ k.at = cl[c].at /\ k.text = cl[c].text
      /\ k.slot = cl[c].slot /\ k.idx = cl[c].idx /\ k.got = cl[c].got
  BY <1>1 DEF ClientStates
<1>4. cl' = [cl EXCEPT ![c] = k] /\ cl[c].pc = from
  BY DEF Goes
<1> HIDE DEF k
<1>5. Moves(c) /\ cl'[c] = k
  BY <1>1, <1>2, <1>4, MovesTo
<1> QED
  BY <1>3, <1>4, <1>5 DEF Stays

LEMMA FindSlotDoes ==
  ASSUME TypeOK, NEW c \in Clients, FindSlot(c)
  PROVE  /\ Stays(c) /\ cl[c].pc = "scan" /\ cl'[c].pc = "take"
         /\ cl'[c].slot \in Slots /\ ~Room(c).active[cl'[c].slot]
         /\ clashed' = clashed \cup RoomsOf({d \in Peers(c, {"take"}) : cl[d].slot = cl'[c].slot})
<1>1. /\ cl[c] \in ClientStates(made, acts) /\ cl \in [Clients -> ClientStates(made, acts)]
      /\ made \in Nat /\ acts \in Nat /\ acts' = acts /\ "take" \in Pcs
  BY StateTypes DEF FindSlot, Pcs
<1>2. PICK i \in Slots :
        /\ ~Room(c).active[i] /\ cl' = [cl EXCEPT ![c].pc = "take", ![c].slot = i]
        /\ clashed' = clashed \cup RoomsOf({d \in Peers(c, {"take"}) : cl[d].slot = i})
  BY DEF FindSlot
<1> DEFINE k == [cl[c] EXCEPT !.pc = "take", !.slot = i]
<1>3. k \in ClientStates(made, acts)
  BY <1>1, StateFields
<1>4. k.pc = "take" /\ k.at = cl[c].at /\ k.text = cl[c].text /\ k.slot = i
  BY <1>1 DEF ClientStates
<1>5. cl' = [cl EXCEPT ![c] = k]
  BY <1>1, <1>2 DEF ClientStates
<1> HIDE DEF k
<1>6. Moves(c) /\ cl'[c] = k
  BY <1>1, <1>3, <1>5, MovesTo
<1>7. cl[c].pc = "scan"
  BY DEF FindSlot
<1> QED
  BY <1>1, <1>2, <1>4, <1>6, <1>7 DEF Stays

LEMMA LoadIndexDoes ==
  ASSUME TypeOK, NEW c \in Clients, LoadIndex(c)
  PROVE  /\ Stays(c) /\ cl[c].pc = "index" /\ cl'[c].pc = "copy" /\ cl'[c].slot = cl[c].slot
         /\ cl'[c].idx = Room(c).msg_count % SLOTS
<1>1. /\ cl[c] \in ClientStates(made, acts) /\ cl \in [Clients -> ClientStates(made, acts)]
      /\ made \in Nat /\ acts \in Nat /\ acts' = acts /\ "copy" \in Pcs /\ cl[c].pc = "index"
  BY StateTypes DEF LoadIndex, WriteAt, Pcs
<1> DEFINE i == Room(c).msg_count % SLOTS
           k == [cl[c] EXCEPT !.pc = "copy", !.idx = i]
<1>2. i \in Slots
  <2>1. Room(c).msg_count \in Nat
    BY <1>1, InARoom, BoundsAssumption DEF RoomStates
  <2> QED
    BY <2>1, SlotFacts
<1>3. cl' = [cl EXCEPT ![c].pc = "copy", ![c].idx = i]
  BY DEF LoadIndex, WriteAt
<1> HIDE DEF i
<1>4. k \in ClientStates(made, acts)
  BY <1>1, <1>2, StateFields
<1>5. k.pc = "copy" /\ k.at = cl[c].at /\ k.text = cl[c].text /\ k.slot = cl[c].slot /\ k.idx = i
  BY <1>1 DEF ClientStates
<1>6. cl' = [cl EXCEPT ![c] = k]
  BY <1>1, <1>3 DEF ClientStates
<1> HIDE DEF k
<1>7. Moves(c) /\ cl'[c] = k
  BY <1>1, <1>4, <1>6, MovesTo
<1> QED
  BY <1>1, <1>5, <1>7 DEF Stays, i

LEMMA FetchCountDoes ==
  ASSUME TypeOK, NEW c \in Clients, FetchCount(c)
  PROVE  /\ Stays(c) /\ cl[c].pc = "fetch" /\ cl'[c].pc = "store" /\ cl'[c].slot = cl[c].slot
         /\ cl'[c].got = Room(c).msg_count
<1>1. /\ cl[c] \in ClientStates(made, acts) /\ cl \in [Clients -> ClientStates(made, acts)]
      /\ made \in Nat /\ acts \in Nat /\ acts' = acts /\ "store" \in Pcs /\ cl[c].pc = "fetch"
  BY StateTypes DEF FetchCount, Pcs
<1> DEFINE g == Room(c).msg_count
           k == [cl[c] EXCEPT !.pc = "store", !.got = g, !.idx = 0]
<1>2. g \in 0 .. MaxActs /\ 0 \in Slots
  BY <1>1, InARoom, SlotFacts DEF RoomStates
<1>3. cl' = [cl EXCEPT ![c].pc = "store", ![c].got = g, ![c].idx = 0]
  BY DEF FetchCount
<1> HIDE DEF g
<1>4. k \in ClientStates(made, acts)
  BY <1>1, <1>2, StateFields
<1>5. k.pc = "store" /\ k.at = cl[c].at /\ k.text = cl[c].text /\ k.slot = cl[c].slot /\ k.got = g
  BY <1>1 DEF ClientStates
<1>6. cl' = [cl EXCEPT ![c] = k]
  BY <1>1, <1>3 DEF ClientStates
<1> HIDE DEF k
<1>7. Moves(c) /\ cl'[c] = k
  BY <1>1, <1>4, <1>6, MovesTo
<1> QED
  BY <1>1, <1>5, <1>7 DEF Stays, g

\* The list is drawn by main, or by the thread.
LEMMA UsersAreClients ==
  ASSUME TypeOK, NEW c \in Clients, cl[c].pc # "off" \/ cl[c].thread # "none"
  PROVE  ActiveUsers(c) \in SUBSET Clients
<1>1. Room(c).name \in [Slots -> Names]
  BY InARoom DEF RoomStates
<1> QED
  BY <1>1 DEF ActiveUsers, Names

LEMMA ListUsersDoes ==
  ASSUME TypeOK, NEW c \in Clients, ListUsers(c)
  PROVE  Stays(c) /\ cl[c].pc = "list" /\ cl'[c].pc = "chat" /\ cl'[c].slot = cl[c].slot
<1>1. /\ cl[c] \in ClientStates(made, acts) /\ cl \in [Clients -> ClientStates(made, acts)]
      /\ made \in Nat /\ acts \in Nat /\ acts' = acts /\ "chat" \in Pcs /\ cl[c].pc = "list"
      /\ 0 \in 0 .. MaxActs
  BY StateTypes, BoundsAssumption DEF ListUsers, Pcs
<1> DEFINE u == ActiveUsers(c)
           t == IF cl[c].thread = "none" THEN "poll" ELSE cl[c].thread
           k == [cl[c] EXCEPT !.pc = "chat", !.users = u, !.got = 0, !.thread = t]
<1>2. u \in SUBSET Clients /\ t \in {"none", "poll", "draw"}
  BY <1>1, UsersAreClients DEF ClientStates
<1>3. cl' = [cl EXCEPT ![c] = k]
  BY <1>1 DEF ListUsers, ClientStates
<1> HIDE DEF u, t
<1>4. k \in ClientStates(made, acts)
  BY <1>1, <1>2, StateFields
<1>5. k.pc = "chat" /\ k.at = cl[c].at /\ k.text = cl[c].text /\ k.slot = cl[c].slot
  BY <1>1 DEF ClientStates
<1> HIDE DEF k
<1>7. Moves(c) /\ cl'[c] = k
  BY <1>1, <1>3, <1>4, MovesTo
<1> QED
  BY <1>1, <1>5, <1>7 DEF Stays

LEMMA ThreadDoes ==
  ASSUME TypeOK, NEW c \in Clients, receive_messages(c)
  PROVE  /\ Stays(c) /\ cl[c].thread # "none" /\ cl'[c].pc = cl[c].pc
         /\ cl'[c].slot = cl[c].slot /\ cl'[c].idx = cl[c].idx /\ cl'[c].got = cl[c].got
<1>1. /\ cl[c] \in ClientStates(made, acts) /\ cl \in [Clients -> ClientStates(made, acts)]
      /\ made \in Nat /\ acts \in Nat /\ acts' = acts /\ cl[c].thread # "none"
  BY StateTypes DEF receive_messages, Poll, Draw
<1>2. ASSUME NEW k \in ClientStates(made, acts), cl' = [cl EXCEPT ![c] = k],
             k.pc = cl[c].pc, k.at = cl[c].at, k.text = cl[c].text,
             k.slot = cl[c].slot, k.idx = cl[c].idx, k.got = cl[c].got
      PROVE  /\ Stays(c) /\ cl[c].thread # "none" /\ cl'[c].pc = cl[c].pc
             /\ cl'[c].slot = cl[c].slot /\ cl'[c].idx = cl[c].idx /\ cl'[c].got = cl[c].got
  <2>1. Moves(c) /\ cl'[c] = k
    BY <1>1, <1>2, MovesTo
  <2> QED
    BY <1>1, <1>2, <2>1 DEF Stays
<1>3. CASE Poll(c)
  <2> DEFINE n == Room(c).msg_count
             k == [cl[c] EXCEPT !.thread = "draw", !.last = n]
  <2>1. n \in 0 .. MaxActs
    BY <1>1, InARoom DEF RoomStates
  <2>2. cl' = [cl EXCEPT ![c] = k]
    BY <1>1, <1>3 DEF Poll, ClientStates
  <2> HIDE DEF n
  <2>3. k \in ClientStates(made, acts)
    BY <1>1, <2>1, StateFields
  <2>4. /\ k.pc = cl[c].pc /\ k.at = cl[c].at /\ k.text = cl[c].text
        /\ k.slot = cl[c].slot /\ k.idx = cl[c].idx /\ k.got = cl[c].got
    BY <1>1 DEF ClientStates
  <2> HIDE DEF k
  <2> QED
    BY <1>2, <2>2, <2>3, <2>4
<1>4. CASE Draw(c)
  <2> DEFINE u == ActiveUsers(c)
             k == [cl[c] EXCEPT !.thread = "poll", !.users = u]
  <2>1. u \in SUBSET Clients
    BY <1>1, UsersAreClients
  <2>2. cl' = [cl EXCEPT ![c] = k]
    BY <1>1, <1>4 DEF Draw, ClientStates
  <2> HIDE DEF u
  <2>3. k \in ClientStates(made, acts)
    BY <1>1, <2>1, StateFields
  <2>4. /\ k.pc = cl[c].pc /\ k.at = cl[c].at /\ k.text = cl[c].text
        /\ k.slot = cl[c].slot /\ k.idx = cl[c].idx /\ k.got = cl[c].got
    BY <1>1 DEF ClientStates
  <2> HIDE DEF k
  <2> QED
    BY <1>2, <2>2, <2>3, <2>4
<1> QED
  BY <1>3, <1>4 DEF receive_messages


(***************************************************************************)
(* What the steps of a client do to its room.                              *)
(***************************************************************************)
\* The fields of a room's state, and the states that come from writing some.
LEMMA RoomFields ==
  ASSUME NEW q \in RoomStates
  PROVE  /\ q.name \in [Slots -> Names] /\ q.active \in [Slots -> BOOLEAN]
         /\ q.message \in [Slots -> Texts \cup {EMPTY, TORN}] /\ q.msg_count \in 0 .. MaxActs
BY DEF RoomStates

LEMMA WrittenRoom ==
  ASSUME NEW q \in RoomStates, NEW i \in Slots, NEW t \in Texts \cup {EMPTY, TORN}, NEW x,
         x = [q EXCEPT !.message = [q.message EXCEPT ![i] = t]]
  PROVE  /\ x \in RoomStates /\ x.name = q.name /\ x.active = q.active /\ x.msg_count = q.msg_count
         /\ x.message = [q.message EXCEPT ![i] = t]
<1> DEFINE m == [q.message EXCEPT ![i] = t]
<1>1. m \in [Slots -> Texts \cup {EMPTY, TORN}]
  BY RoomFields
<1>2. x = [q EXCEPT !.message = m]
  OBVIOUS
<1> HIDE DEF m
<1>3. x \in RoomStates /\ x.name = q.name /\ x.active = q.active /\ x.msg_count = q.msg_count /\ x.message = m
  BY <1>1, <1>2 DEF RoomStates
<1> QED
  BY <1>3 DEF m

LEMMA CountedRoom ==
  ASSUME NEW q \in RoomStates, NEW n \in 0 .. MaxActs, NEW x, x = [q EXCEPT !.msg_count = n]
  PROVE  /\ x \in RoomStates /\ x.name = q.name /\ x.active = q.active /\ x.message = q.message
         /\ x.msg_count = n
BY DEF RoomStates

LEMMA TakeSlotDoes ==
  ASSUME TypeOK, NEW c \in Clients, TakeSlot(c)
  PROVE  /\ Stays(c) /\ cl[c].pc = "take" /\ cl'[c].pc = "index" /\ cl'[c].slot = cl[c].slot
         /\ cl[c].slot \in Slots
         /\ room' \in [Rooms -> RoomStates] /\ \A r \in Rooms \ {cl[c].at} : room'[r] = room[r]
         /\ room'[cl[c].at].name = [Room(c).name EXCEPT ![cl[c].slot] = {c}]
         /\ room'[cl[c].at].active = [Room(c).active EXCEPT ![cl[c].slot] = TRUE]
         /\ room'[cl[c].at].message = Room(c).message /\ room'[cl[c].at].msg_count = Room(c).msg_count
         /\ UNCHANGED <<joined, spoilt, clashed>>
<1>1. Goes(c, "take", "index") /\ acts' = acts /\ UNCHANGED <<joined, spoilt, clashed>>
  BY DEF TakeSlot, TakeSlotAs
<1>2. cl[c].pc = "take" /\ "index" \in Pcs
  BY <1>1 DEF Goes, Pcs
<1>3. cl[c].at \in Rooms /\ Room(c) \in RoomStates /\ room \in [Rooms -> RoomStates] /\ cl[c].slot \in Slots
  BY <1>2, InARoom, StateTypes DEF TypeOK
<1> DEFINE q == Room(c)
           i == cl[c].slot
           n == [q.name EXCEPT ![i] = {c}]
           a == [q.active EXCEPT ![i] = TRUE]
           x == [q EXCEPT !.name = n, !.active = a]
<1>0. q \in RoomStates /\ n \in [Slots -> Names] /\ a \in [Slots -> BOOLEAN]
  BY <1>3, RoomFields DEF Names
<1>5. room' = [room EXCEPT ![cl[c].at] = x]
  BY <1>3 DEF TakeSlot, TakeSlotAs, Room, RoomStates
<1> HIDE DEF q, n, a
<1>8. x = [q EXCEPT !.name = n, !.active = a]
  OBVIOUS
<1> HIDE DEF x
<1>4. x \in RoomStates /\ x.message = q.message /\ x.msg_count = q.msg_count /\ x.name = n /\ x.active = a
  BY <1>0, <1>8 DEF RoomStates
<1>6. room' \in [Rooms -> RoomStates] /\ room'[cl[c].at] = x /\ \A r \in Rooms \ {cl[c].at} : room'[r] = room[r]
  BY <1>3, <1>4, <1>5
<1>7. Stays(c) /\ cl'[c].pc = "index" /\ cl'[c].slot = cl[c].slot
  BY <1>1, <1>2, GoesDoes
<1> QED
  BY <1>1, <1>2, <1>3, <1>4, <1>6, <1>7 DEF q, n, a

\* A text is written over an older one, which is torn before it is whole.
LEMMA CopyDoes ==
  ASSUME TypeOK, Numbered, NEW c \in Clients, StartCopy(c) \/ EndCopy(c)
  PROVE  /\ Stays(c) /\ cl'[c].slot = cl[c].slot /\ cl'[c].idx = cl[c].idx
         /\ cl[c].pc = (IF StartCopy(c) THEN "copy" ELSE "copying")
         /\ cl'[c].pc = (IF StartCopy(c) THEN "copying" ELSE "fetch")
         /\ room' \in [Rooms -> RoomStates] /\ \A r \in Rooms \ {cl[c].at} : room'[r] = room[r]
         /\ cl[c].idx \in Slots
         /\ \A i \in Slots \ {cl[c].idx} : room'[cl[c].at].message[i] = Room(c).message[i]
         /\ EndCopy(c) /\ cl[c].at \notin spoilt =>
              room'[cl[c].at].message[cl[c].idx] = <<c, cl[c].text>>
         /\ room'[cl[c].at].name = Room(c).name /\ room'[cl[c].at].active = Room(c).active
         /\ room'[cl[c].at].msg_count = Room(c).msg_count
         /\ UNCHANGED <<joined, spoilt, clashed>>
<1> DEFINE from == IF StartCopy(c) THEN "copy" ELSE "copying"
           to   == IF StartCopy(c) THEN "copying" ELSE "fetch"
<1>1. Goes(c, from, to) /\ acts' = acts /\ UNCHANGED <<joined, spoilt, clashed>> /\ to \in Pcs /\ from # "off"
  BY DEF StartCopy, EndCopy, Pcs
<1>2. cl[c].pc = from
  BY <1>1 DEF Goes
<1>3. /\ cl[c].at \in Rooms /\ Room(c) \in RoomStates /\ room \in [Rooms -> RoomStates]
      /\ cl[c] \in ClientStates(made, acts) /\ cl[c].idx \in Slots /\ cl[c].text \in 0 .. acts
      /\ acts \in Nat /\ acts <= MaxActs
  BY <1>1, <1>2, InARoom, StateTypes DEF ClientStates
<1> DEFINE q == Room(c)
           i == cl[c].idx
<1>4. PICK t \in {TORN, <<c, cl[c].text>>} :
        /\ room' = [room EXCEPT ![cl[c].at] = [q EXCEPT !.message = [q.message EXCEPT ![i] = t]]]
        /\ EndCopy(c) /\ cl[c].at \notin spoilt => t = <<c, cl[c].text>>
        /\ t = TORN \/ EndCopy(c)
  <2>1. CASE StartCopy(c)
    <3>1. room' = [room EXCEPT ![cl[c].at] = [q EXCEPT !.message = [q.message EXCEPT ![i] = TORN]]]
      BY <2>1, <1>3 DEF StartCopy, Room, RoomStates
    <3>2. ~EndCopy(c)
      BY <2>1 DEF StartCopy, EndCopy, Goes
    <3> QED
      BY <3>1, <3>2
  <2>2. CASE EndCopy(c)
    <3>1. PICK t \in {<<c, cl[c].text>>} \cup {TORN : r \in spoilt \cap {cl[c].at}} :
             room' = [room EXCEPT ![cl[c].at].message[cl[c].idx] = t]
      BY <2>2 DEF EndCopy
    <3>2. room' = [room EXCEPT ![cl[c].at] = [q EXCEPT !.message = [q.message EXCEPT ![i] = t]]]
      BY <3>1, <1>3 DEF Room, RoomStates
    <3> QED
      BY <2>2, <3>1, <3>2
  <2> QED
    BY <2>1, <2>2
<1>5. t \in Texts \cup {EMPTY, TORN}
  <2>1. cl[c].pc # "off"
    BY <1>1, <1>2
  <2>2. cl[c].text > 0
    BY <2>1 DEF Numbered
  <2>3. cl[c].text \in 1 .. MaxActs
    BY <1>3, <2>2, BoundsAssumption
  <2> QED
    BY <2>3 DEF Texts
<1>0. q \in RoomStates /\ i \in Slots /\ q.message \in [Slots -> Texts \cup {EMPTY, TORN}]
  BY <1>3, RoomFields
<1> HIDE DEF q, i
<1> DEFINE x == [q EXCEPT !.message = [q.message EXCEPT ![i] = t]]
<1>7. room' = [room EXCEPT ![cl[c].at] = x]
  BY <1>4
<1>11. x = [q EXCEPT !.message = [q.message EXCEPT ![i] = t]]
  OBVIOUS
<1> HIDE DEF x
<1>6. /\ x \in RoomStates /\ x.name = q.name /\ x.active = q.active /\ x.msg_count = q.msg_count
      /\ x.message = [q.message EXCEPT ![i] = t]
  BY <1>0, <1>5, <1>11, WrittenRoom
<1>8. room' \in [Rooms -> RoomStates] /\ room'[cl[c].at] = x /\ \A r \in Rooms \ {cl[c].at} : room'[r] = room[r]
  BY <1>3, <1>6, <1>7
<1>9. /\ \A j \in Slots \ {i} : x.message[j] = q.message[j]
      /\ x.message[i] = t
  BY <1>0, <1>6
<1>10. /\ Stays(c) /\ cl'[c].slot = cl[c].slot /\ cl'[c].idx = cl[c].idx
       /\ cl[c].pc = from /\ cl'[c].pc = to
  BY <1>1, GoesDoes
<1> QED
  BY <1>1, <1>3, <1>4, <1>6, <1>8, <1>9, <1>10 DEF q, i


LEMMA StoreCountDoes ==
  ASSUME TypeOK, NEW c \in Clients, StoreCount(c), cl[c].got < MaxActs
  PROVE  /\ Stays(c) /\ cl[c].pc = "store" /\ cl'[c].pc = "list" /\ cl'[c].slot = cl[c].slot
         /\ room' \in [Rooms -> RoomStates] /\ \A r \in Rooms \ {cl[c].at} : room'[r] = room[r]
         /\ room'[cl[c].at].name = Room(c).name /\ room'[cl[c].at].active = Room(c).active
         /\ room'[cl[c].at].message = Room(c).message /\ room'[cl[c].at].msg_count = cl[c].got + 1
         /\ joined' \subseteq joined \cup {c} /\ UNCHANGED <<spoilt, clashed>>
<1>1. /\ Goes(c, "store", "list") /\ acts' = acts /\ joined' \subseteq joined \cup {c} /\ UNCHANGED <<spoilt, clashed>>
      /\ room' = [room EXCEPT ![cl[c].at].msg_count = cl[c].got + 1]
  BY DEF StoreCount
<1>2. cl[c].pc = "store" /\ "list" \in Pcs
  BY <1>1 DEF Goes, Pcs
<1>3. /\ cl[c].at \in Rooms /\ Room(c) \in RoomStates /\ room \in [Rooms -> RoomStates]
      /\ cl[c].got + 1 \in 0 .. MaxActs
  <2>1. cl[c] \in ClientStates(made, acts) /\ MaxActs \in Nat
    BY StateTypes, BoundsAssumption
  <2> QED
    BY <1>2, <2>1, InARoom, StateTypes DEF ClientStates
<1> DEFINE q == Room(c)
           n == cl[c].got + 1
           x == [q EXCEPT !.msg_count = n]
<1>0. q \in RoomStates /\ n \in 0 .. MaxActs
  BY <1>3
<1>4. room' = [room EXCEPT ![cl[c].at] = x]
  BY <1>1, <1>3 DEF Room, RoomStates
<1> HIDE DEF q, n
<1>8. x = [q EXCEPT !.msg_count = n]
  OBVIOUS
<1> HIDE DEF x
<1>5. /\ x \in RoomStates /\ x.message = q.message /\ x.name = q.name /\ x.active = q.active
      /\ x.msg_count = n
  BY <1>0, <1>8, CountedRoom
<1>6. room' \in [Rooms -> RoomStates] /\ room'[cl[c].at] = x /\ \A r \in Rooms \ {cl[c].at} : room'[r] = room[r]
  BY <1>3, <1>4, <1>5
<1>7. Stays(c) /\ cl'[c].pc = "list" /\ cl'[c].slot = cl[c].slot
  BY <1>1, <1>2, GoesDoes
<1> QED
  BY <1>1, <1>2, <1>5, <1>6, <1>7 DEF q, n

\* A step that writes nothing, and does not overlap.
LEMMA Elsewhere ==
  ASSUME NEW c \in Clients, MainStep(c) \/ Attach(c) \/ Type(c) \/ Leave(c) \/ receive_messages(c)
  PROVE  /\ UNCHANGED serverVars
         /\ UNCHANGED room \/ TakeSlot(c) \/ StartCopy(c) \/ EndCopy(c) \/ StoreCount(c)
         /\ UNCHANGED spoilt \/ LoadIndex(c)
         /\ UNCHANGED clashed \/ FindSlot(c)
         /\ joined' \subseteq joined \cup {c}
BY DEF MainStep, Attach, Type, Leave, receive_messages, FindSlot, NoFreeSlot, TakeSlot, TakeSlotAs, LoadIndex,
       WriteAt, StartCopy, EndCopy, FetchCount, StoreCount, ListUsers, Poll, Draw

\* An overlap or a clash is one of the room the client is in.
LEMMA Marks ==
  ASSUME TypeOK, NEW c \in Clients, cl[c].pc # "off", NEW D, NEW pcs, D \subseteq Peers(c, pcs)
  PROVE  RoomsOf(D) \subseteq {cl[c].at} /\ RoomsOf(D) \subseteq Rooms /\ (D # {} => cl[c].at \in RoomsOf(D))
<1>1. cl[c].at \in Rooms
  BY InARoom
<1> QED
  BY <1>1 DEF RoomsOf, Peers


(***************************************************************************)
(* The types are kept.                                                     *)
(***************************************************************************)
ClientStep(c) == Attach(c) \/ MainStep(c) \/ Type(c) \/ Leave(c) \/ receive_messages(c)

LEMMA ClientsFinite == IsFiniteSet(Clients)
<1>1. NClients \in Int /\ 1 \in Int
  BY ClientsAssumption
<1> QED
  BY <1>1, FS_Interval DEF Clients

LEMMA BusyCounts ==
  ASSUME TypeOK, NEW c \in Clients, Moves(c)
  PROVE  /\ Cardinality(Busy) \in Nat /\ Cardinality(Busy') \in Nat
         /\ Cardinality(Busy') <= Cardinality(Busy) + 1
         /\ c \in Busy \/ c \notin Busy' => Cardinality(Busy') <= Cardinality(Busy)
         /\ c \in Busy /\ c \notin Busy' => Cardinality(Busy') <= Cardinality(Busy) - 1
<1>1. IsFiniteSet(Busy) /\ IsFiniteSet(Busy')
  <2>1. IsFiniteSet(Clients)
    BY ClientsFinite
  <2>2. Busy \subseteq Clients /\ Busy' \subseteq Clients
    BY DEF Busy
  <2> QED
    BY <2>1, <2>2, FS_Subset
<1>2. Cardinality(Busy) \in Nat /\ Cardinality(Busy') \in Nat
  BY <1>1, FS_CardinalityType
<1>3. Busy' \subseteq Busy \cup {c}
  BY DEF Moves, Busy, Posting
<1>4. /\ IsFiniteSet(Busy \cup {c}) /\ Cardinality(Busy \cup {c}) <= Cardinality(Busy) + 1
      /\ c \in Busy => Busy \cup {c} = Busy
  BY <1>1, <1>2, FS_AddElement
<1>5. Cardinality(Busy') <= Cardinality(Busy \cup {c})
  BY <1>3, <1>4, FS_Subset
<1>6. ASSUME c \in Busy \/ c \notin Busy'
      PROVE  Cardinality(Busy') <= Cardinality(Busy)
  <2>1. Busy' \subseteq Busy
    BY <1>3, <1>6
  <2> QED
    BY <1>1, <2>1, FS_Subset
<1>7. ASSUME c \in Busy, c \notin Busy'
      PROVE  Cardinality(Busy') <= Cardinality(Busy) - 1
  <2>1. Busy' \subseteq Busy \ {c}
    BY <1>3, <1>7
  <2>2. IsFiniteSet(Busy \ {c}) /\ Cardinality(Busy \ {c}) = Cardinality(Busy) - 1
    BY <1>1, <1>7, FS_RemoveElement
  <2> QED
    BY <2>1, <2>2, FS_Subset
<1>8. /\ Cardinality(Busy \cup {c}) \in Nat
      /\ Cardinality(Busy') <= Cardinality(Busy) + 1
  <2>1. Cardinality(Busy \cup {c}) \in Nat
    BY <1>4, FS_CardinalityType
  <2> QED
    BY <1>2, <1>4, <1>5, <2>1
<1> QED
  BY <1>2, <1>6, <1>7, <1>8

\* Who is about to count has a text left to count.
LEMMA StoresOneMore ==
  ASSUME Inv, NEW c \in Clients, cl[c].pc = "store"
  PROVE  cl[c].got < MaxActs /\ cl[c].got < acts
<1>1. IsFiniteSet(Busy) /\ c \in Busy
  <2>1. IsFiniteSet(Clients)
    BY ClientsFinite
  <2>2. Busy \subseteq Clients /\ c \in Busy
    BY DEF Busy, Posting
  <2> QED
    BY <2>1, <2>2, FS_Subset
<1>2. Cardinality(Busy) \in Nat /\ Cardinality(Busy) # 0
  BY <1>1, FS_CardinalityType, FS_EmptySet
<1>3. cl[c] \in ClientStates(made, acts) /\ acts \in Nat /\ acts <= MaxActs /\ MaxActs \in Nat
  BY StateTypes, BoundsAssumption DEF Inv
<1>4. cl[c].got \in Nat
  BY <1>3 DEF ClientStates
<1>5. cl[c].got + Cardinality(Busy) <= acts
  BY DEF Inv, Budget
<1> QED
  BY <1>2, <1>3, <1>4, <1>5

\* A step of a client that stays keeps the types.
LEMMA StayTyped ==
  ASSUME TypeOK, NEW c \in Clients, Stays(c), cl[c].pc # "off" \/ cl[c].thread # "none",
         cl'[c].pc = "take" => cl'[c].slot \in Slots,
         UNCHANGED serverVars, room' \in [Rooms -> RoomStates],
         joined' \subseteq joined \cup {c}, spoilt' \subseteq Rooms, clashed' \subseteq Rooms
  PROVE  TypeOK'
<1>1. cl'[c].at # 0 /\ Moves(c) /\ acts' = acts
  BY InARoom DEF Stays
<1>2. joined' \subseteq Clients /\ acts' \in 0 .. MaxActs
  BY <1>1 DEF TypeOK
<1> QED
  BY <1>1, <1>2, Retyped

LEMMA TypesKept ==
  ASSUME Inv, NEW c \in Clients, ClientStep(c)
  PROVE  TypeOK' /\ Moves(c)
<1> USE DEF Inv
<1>1. /\ UNCHANGED serverVars
      /\ UNCHANGED room \/ TakeSlot(c) \/ StartCopy(c) \/ EndCopy(c) \/ StoreCount(c)
      /\ UNCHANGED spoilt \/ LoadIndex(c)
      /\ UNCHANGED clashed \/ FindSlot(c)
      /\ joined' \subseteq joined \cup {c}
  BY Elsewhere DEF ClientStep
<1>2. /\ room \in [Rooms -> RoomStates] /\ joined \subseteq Clients /\ spoilt \subseteq Rooms
      /\ clashed \subseteq Rooms /\ acts \in Nat /\ MaxActs \in Nat
  BY StateTypes, BoundsAssumption DEF TypeOK
<1>3. joined' \subseteq Clients
  BY <1>1, <1>2
<1>4. CASE Attach(c)
  <2>1. Moves(c) /\ acts' \in 0 .. MaxActs /\ cl'[c].at # 0 /\ cl'[c].pc # "take"
    BY <1>2, <1>4, AttachDoes
  <2>2. UNCHANGED <<room, spoilt, clashed>>
    BY <1>4 DEF Attach
  <2> QED
    BY <1>1, <1>2, <1>3, <2>1, <2>2, Retyped
<1>5. CASE Type(c)
  <2>1. Moves(c) /\ acts' \in 0 .. MaxActs /\ cl'[c].at = cl[c].at /\ cl'[c].pc # "take" /\ cl[c].pc # "off"
    BY <1>2, <1>5, TypeDoes
  <2>2. UNCHANGED <<room, spoilt, clashed>> /\ cl[c].at # 0
    BY <1>5, <2>1, InARoom DEF Type
  <2> QED
    BY <1>1, <1>2, <1>3, <2>1, <2>2, Retyped
<1>6. CASE Leave(c)
  <2>1. Moves(c) /\ acts' \in 0 .. MaxActs /\ cl'[c] = Off /\ Off.pc # "take"
    BY <1>6, LeaveDoes, StateTypes DEF TypeOK
  <2>2. UNCHANGED <<room, spoilt, clashed>>
    BY <1>6 DEF Leave
  <2> QED
    BY <1>1, <1>2, <1>3, <2>1, <2>2, Retyped
<1>7. CASE FindSlot(c)
  <2>1. Stays(c) /\ cl[c].pc # "off" /\ cl'[c].slot \in Slots
    BY <1>7, FindSlotDoes
  <2>2. clashed' \subseteq Rooms
    BY <1>2, <1>7, <2>1, FindSlotDoes, Marks
  <2>3. UNCHANGED <<room, spoilt>>
    BY <1>7 DEF FindSlot
  <2> QED
    BY <1>1, <1>2, <2>1, <2>2, <2>3, StayTyped DEF Stays
<1>8. CASE NoFreeSlot(c)
  <2>1. Stays(c) /\ cl[c].pc # "off" /\ cl'[c].pc # "take" /\ UNCHANGED <<room, spoilt, clashed>>
    BY <1>8, GoesDoes DEF NoFreeSlot, Pcs
  <2> QED
    BY <1>1, <1>2, <2>1, StayTyped DEF Stays
<1>9. CASE TakeSlot(c)
  BY <1>1, <1>2, <1>9, TakeSlotDoes, StayTyped DEF Stays
<1>10. CASE LoadIndex(c)
  <2>1. Stays(c) /\ cl[c].pc # "off" /\ cl'[c].pc # "take"
    BY <1>10, LoadIndexDoes
  <2>2. spoilt' \subseteq Rooms /\ UNCHANGED <<room, clashed>>
    BY <1>2, <1>10, <2>1, Marks DEF LoadIndex, WriteAt
  <2> QED
    BY <1>1, <1>2, <2>1, <2>2, StayTyped DEF Stays
<1>11. CASE StartCopy(c) \/ EndCopy(c)
  <2>1. /\ Stays(c) /\ cl[c].pc # "off" /\ cl'[c].pc # "take" /\ UNCHANGED <<spoilt, clashed>>
        /\ room' \in [Rooms -> RoomStates]
    BY <1>11, CopyDoes
  <2> QED
    BY <1>1, <1>2, <2>1, StayTyped DEF Stays
<1>12. CASE FetchCount(c)
  <2>1. Stays(c) /\ cl[c].pc # "off" /\ cl'[c].pc # "take" /\ UNCHANGED <<room, spoilt, clashed>>
    BY <1>12, FetchCountDoes DEF FetchCount
  <2> QED
    BY <1>1, <1>2, <2>1, StayTyped DEF Stays
<1>13. CASE StoreCount(c)
  <2>1. cl[c].got < MaxActs
    BY <1>13, StoresOneMore DEF StoreCount, Goes
  <2>2. /\ Stays(c) /\ cl[c].pc # "off" /\ cl'[c].pc # "take" /\ UNCHANGED <<spoilt, clashed>>
        /\ room' \in [Rooms -> RoomStates]
    BY <1>13, <2>1, StoreCountDoes
  <2> QED
    BY <1>1, <1>2, <2>2, StayTyped DEF Stays
<1>14. CASE ListUsers(c)
  <2>1. Stays(c) /\ cl[c].pc # "off" /\ cl'[c].pc # "take" /\ UNCHANGED <<room, spoilt, clashed>>
    BY <1>14, ListUsersDoes DEF ListUsers
  <2> QED
    BY <1>1, <1>2, <2>1, StayTyped DEF Stays
<1>15. CASE receive_messages(c)
  <2>1. /\ Stays(c) /\ cl[c].thread # "none" /\ UNCHANGED <<room, spoilt, clashed>>
        /\ cl'[c].pc = cl[c].pc /\ cl'[c].slot = cl[c].slot
    BY <1>15, ThreadDoes DEF receive_messages, Poll, Draw
  <2>2. cl'[c].pc = "take" => cl'[c].slot \in Slots
    BY <2>1 DEF TypeOK
  <2> QED
    BY <1>1, <1>2, <2>1, <2>2, StayTyped DEF Stays
<1> QED
  BY <1>4, <1>5, <1>6, <1>7, <1>8, <1>9, <1>10, <1>11, <1>12, <1>13, <1>14, <1>15 DEF ClientStep, MainStep


(***************************************************************************)
(* The budget is kept, and the numbers of the texts.                       *)
(***************************************************************************)
\* The numbers a budget is made of.
LEMMA BudgetTypes ==
  ASSUME TypeOK
  PROVE  /\ acts \in Nat /\ \A r \in Rooms : room[r].msg_count \in Nat
         /\ \A d \in Clients : cl[d].got \in Nat /\ (cl[d].pc # "off" => cl[d].at \in Rooms)
<1>1. cl \in [Clients -> ClientStates(made, acts)] /\ room \in [Rooms -> RoomStates] /\ acts \in Nat
  BY StateTypes
<1>2. \A d \in Clients : cl[d].pc # "off" => cl[d].at \in Rooms
  BY InARoom
<1> QED
  BY <1>1, <1>2, BoundsAssumption DEF ClientStates, RoomStates

\* A step that counts nothing and takes no new text keeps it.
LEMMA BudgetStays ==
  ASSUME Inv, TypeOK', NEW c \in Clients, Moves(c), acts' = acts, c \in Busy \/ c \notin Busy',
         \A r \in Rooms : room'[r].msg_count = room[r].msg_count,
         cl'[c].pc = "store" => \/ cl[c].pc = "store" /\ cl'[c].got = cl[c].got
                                \/ cl[c].pc = "fetch" /\ cl'[c].got = Room(c).msg_count
  PROVE  Budget'
<1>1. Cardinality(Busy) \in Nat /\ Cardinality(Busy') \in Nat /\ Cardinality(Busy') <= Cardinality(Busy)
  BY BusyCounts DEF Inv
<1>2. /\ acts \in Nat /\ \A r \in Rooms : room[r].msg_count \in Nat
      /\ \A d \in Clients : cl[d].got \in Nat /\ (cl[d].pc # "off" => cl[d].at \in Rooms)
  BY BudgetTypes DEF Inv
<1>3. Budget
  BY DEF Inv
<1>4. \A r \in Rooms : room'[r].msg_count + Cardinality(Busy') <= acts'
  BY <1>1, <1>2, <1>3 DEF Budget
<1>5. ASSUME NEW d \in Clients, cl'[d].pc = "store"
      PROVE  cl'[d].got + Cardinality(Busy') <= acts'
  <2>1. CASE cl[d].pc = "store" /\ cl'[d].got = cl[d].got
    BY <1>1, <1>2, <1>3, <2>1 DEF Budget
  <2>2. CASE d = c /\ cl[c].pc = "fetch" /\ cl'[c].got = Room(c).msg_count
    BY <1>1, <1>2, <1>3, <2>2 DEF Budget, Room
  <2> QED
    BY <1>5, <2>1, <2>2 DEF Moves
<1> QED
  BY <1>4, <1>5 DEF Budget

\* A new text takes one more of the bound.
LEMMA BudgetGrows ==
  ASSUME Inv, TypeOK', NEW c \in Clients, Moves(c), acts' = acts + 1, cl'[c].pc # "store", UNCHANGED room
  PROVE  Budget'
<1>1. Cardinality(Busy) \in Nat /\ Cardinality(Busy') \in Nat /\ Cardinality(Busy') <= Cardinality(Busy) + 1
  BY BusyCounts DEF Inv
<1>2. /\ acts \in Nat /\ \A r \in Rooms : room[r].msg_count \in Nat
      /\ \A d \in Clients : cl[d].got \in Nat /\ (cl[d].pc # "off" => cl[d].at \in Rooms)
  BY BudgetTypes DEF Inv
<1>3. Budget
  BY DEF Inv
<1>4. \A r \in Rooms : room'[r].msg_count + Cardinality(Busy') <= acts'
  BY <1>1, <1>2, <1>3 DEF Budget
<1>5. \A d \in Clients : cl'[d].pc = "store" => cl'[d].got + Cardinality(Busy') <= acts'
  BY <1>1, <1>2, <1>3 DEF Budget, Moves
<1> QED
  BY <1>4, <1>5 DEF Budget

\* A text that is counted leaves the busy ones.
LEMMA BudgetCounts ==
  ASSUME Inv, TypeOK', NEW c \in Clients, StoreCount(c)
  PROVE  Budget'
<1>1. /\ Moves(c) /\ acts' = acts /\ cl[c].pc = "store" /\ cl'[c].pc = "list" /\ cl[c].at \in Rooms
      /\ room'[cl[c].at].msg_count = cl[c].got + 1
      /\ \A r \in Rooms \ {cl[c].at} : room'[r] = room[r]
  <2>1. cl[c].pc = "store"
    BY DEF StoreCount, Goes
  <2>2. cl[c].got < MaxActs
    BY <2>1, StoresOneMore
  <2> QED
    BY <2>1, <2>2, StoreCountDoes, InARoom DEF Inv, Stays
<1>2. c \in Busy /\ c \notin Busy'
  BY <1>1 DEF Busy, Posting
<1>3. Cardinality(Busy) \in Nat /\ Cardinality(Busy') \in Nat /\ Cardinality(Busy') <= Cardinality(Busy) - 1
  BY <1>1, <1>2, BusyCounts DEF Inv
<1>4. /\ acts \in Nat /\ \A r \in Rooms : room[r].msg_count \in Nat
      /\ \A d \in Clients : cl[d].got \in Nat
  BY BudgetTypes DEF Inv
<1>5. Budget
  BY DEF Inv
<1>6. ASSUME NEW r \in Rooms
      PROVE  room'[r].msg_count + Cardinality(Busy') <= acts'
  <2>1. CASE r = cl[c].at
    BY <1>1, <1>3, <1>4, <1>5, <2>1 DEF Budget
  <2>2. CASE r # cl[c].at
    BY <1>1, <1>3, <1>4, <1>5, <2>2 DEF Budget
  <2> QED
    BY <2>1, <2>2
<1>7. \A d \in Clients : cl'[d].pc = "store" => cl'[d].got + Cardinality(Busy') <= acts'
  BY <1>1, <1>3, <1>4, <1>5 DEF Budget, Moves
<1> QED
  BY <1>6, <1>7 DEF Budget

LEMMA BudgetKept ==
  ASSUME Inv, TypeOK', NEW c \in Clients, ClientStep(c)
  PROVE  Budget'
<1>0. TypeOK
  BY DEF Inv
<1>1. CASE Attach(c)
  BY <1>0, <1>1, AttachDoes, BudgetGrows DEF Attach
<1>2. CASE Type(c)
  BY <1>0, <1>2, TypeDoes, BudgetGrows DEF Type
<1>3. CASE StoreCount(c)
  BY <1>3, BudgetCounts
<1>4. CASE FetchCount(c)
  <2>1. /\ Moves(c) /\ acts' = acts /\ cl[c].pc = "fetch" /\ cl'[c].got = Room(c).msg_count /\ UNCHANGED room
    BY <1>0, <1>4, FetchCountDoes DEF Stays, FetchCount
  <2>2. c \in Busy
    BY <2>1 DEF Busy, Posting
  <2> QED
    BY <2>1, <2>2, BudgetStays
<1>5. CASE TakeSlot(c) \/ StartCopy(c) \/ EndCopy(c)
  <2>1. /\ Moves(c) /\ acts' = acts /\ cl[c].pc \in {"take", "copy", "copying"} /\ cl'[c].pc # "store"
        /\ room'[cl[c].at].msg_count = Room(c).msg_count
        /\ \A r \in Rooms \ {cl[c].at} : room'[r] = room[r]
    BY <1>0, <1>5, TakeSlotDoes, CopyDoes DEF Stays, Inv
  <2>2. c \in Busy /\ \A r \in Rooms : room'[r].msg_count = room[r].msg_count
    BY <2>1 DEF Busy, Posting, Room
  <2> QED
    BY <2>1, <2>2, BudgetStays
<1>6. CASE FindSlot(c) \/ LoadIndex(c)
  <2>1. /\ Moves(c) /\ acts' = acts /\ cl[c].pc \in {"scan", "index"} /\ cl'[c].pc # "store" /\ UNCHANGED room
    BY <1>0, <1>6, FindSlotDoes, LoadIndexDoes DEF Stays, FindSlot, LoadIndex, WriteAt
  <2>2. c \in Busy
    BY <2>1 DEF Busy
  <2> QED
    BY <2>1, <2>2, BudgetStays
<1>7. CASE NoFreeSlot(c) \/ ListUsers(c) \/ Leave(c)
  <2>1. Moves(c) /\ acts' = acts /\ cl'[c].pc \in {"off", "list", "chat"} /\ UNCHANGED room
    <3>1. "list" \in Pcs /\ Off.pc = "off"
      BY <1>0, StateTypes DEF Pcs
    <3> QED
      BY <1>0, <1>7, <3>1, GoesDoes, ListUsersDoes, LeaveDoes DEF Stays, NoFreeSlot, ListUsers, Leave
  <2>2. c \notin Busy'
    BY <2>1 DEF Busy, Posting
  <2> QED
    BY <2>1, <2>2, BudgetStays
<1>8. CASE receive_messages(c)
  <2>1. /\ Moves(c) /\ acts' = acts /\ cl'[c].pc = cl[c].pc /\ cl'[c].got = cl[c].got /\ UNCHANGED room
    BY <1>0, <1>8, ThreadDoes DEF Stays, receive_messages, Poll, Draw
  <2>2. c \in Busy \/ c \notin Busy'
    BY <2>1 DEF Busy, Posting
  <2> QED
    BY <2>1, <2>2, BudgetStays
<1> QED
  BY <1>1, <1>2, <1>3, <1>4, <1>5, <1>6, <1>7, <1>8 DEF ClientStep, MainStep

\* A step of a client that is there keeps its room and its text.
LEMMA StaysWhere ==
  ASSUME Inv, NEW c \in Clients, MainStep(c) \/ receive_messages(c)
  PROVE  Stays(c) /\ (cl'[c].pc # "off" => cl[c].pc # "off")
<1>0. TypeOK /\ Numbered /\ "list" \in Pcs
  BY DEF Inv, Pcs
<1>1. CASE FindSlot(c) \/ TakeSlot(c) \/ LoadIndex(c) \/ FetchCount(c) \/ ListUsers(c)
  BY <1>0, <1>1, FindSlotDoes, TakeSlotDoes, LoadIndexDoes, FetchCountDoes, ListUsersDoes
<1>2. CASE NoFreeSlot(c)
  BY <1>0, <1>2, GoesDoes DEF NoFreeSlot
<1>3. CASE StartCopy(c) \/ EndCopy(c)
  BY <1>0, <1>3, CopyDoes
<1>4. CASE StoreCount(c)
  <2>1. cl[c].pc = "store"
    BY <1>4 DEF StoreCount, Goes
  <2> QED
    BY <1>0, <1>4, <2>1, StoreCountDoes, StoresOneMore
<1>5. CASE receive_messages(c)
  BY <1>0, <1>5, ThreadDoes
<1> QED
  BY <1>1, <1>2, <1>3, <1>4, <1>5 DEF MainStep

LEMMA NumberedKept ==
  ASSUME Inv, NEW c \in Clients, ClientStep(c)
  PROVE  Numbered'
<1>0. TypeOK /\ Moves(c) /\ acts \in Nat
  BY TypesKept, StateTypes DEF Inv
<1>1. cl'[c].pc # "off" => cl'[c].text > 0
  <2>1. CASE Attach(c) \/ Type(c)
    BY <1>0, <2>1, AttachDoes, TypeDoes
  <2>2. CASE Leave(c)
    BY <1>0, <2>2, LeaveDoes, StateTypes
  <2>3. CASE MainStep(c) \/ receive_messages(c)
    <3>1. cl[c].pc # "off" => cl[c].text > 0
      BY DEF Inv, Numbered
    <3>2. cl'[c].text = cl[c].text /\ (cl'[c].pc # "off" => cl[c].pc # "off")
      <4>1. Stays(c) /\ (cl'[c].pc # "off" => cl[c].pc # "off")
        BY <2>3, StaysWhere
      <4> QED
        BY <4>1 DEF Stays
    <3> QED
      BY <3>1, <3>2
  <2> QED
    BY <2>1, <2>2, <2>3 DEF ClientStep
<1> QED
  BY <1>0, <1>1 DEF Moves, Numbered, Inv


(***************************************************************************)
(* The slots are kept.                                                     *)
(***************************************************************************)
\* A step of a client that chooses no slot, or gives its slot up.
LEMMA SlotsStay ==
  ASSUME Inv, NEW c \in Clients, Moves(c),
         \/ cl'[c].slot = NoSlot
         \/ /\ cl'[c].slot = cl[c].slot /\ cl'[c].at = cl[c].at
            /\ cl[c].pc = "take" => cl'[c].pc = "take",
         UNCHANGED <<room, clashed>>
  PROVE  SlotKept' /\ SlotsDiffer'
<1>1. SlotKept /\ SlotsDiffer
  BY DEF Inv
<1>2. SlotKept'
  BY <1>1 DEF SlotKept, Moves, Room
<1>3. SlotsDiffer'
  BY <1>1 DEF SlotsDiffer, Moves
<1> QED
  BY <1>2, <1>3

\* A slot that is found free is nobody's, or another client is about to take it,
\* which is a clash.
LEMMA FindSlotDiffers ==
  ASSUME Inv, NEW c \in Clients, FindSlot(c)
  PROVE  SlotKept' /\ SlotsDiffer'
<1>1. /\ Moves(c) /\ cl'[c].at = cl[c].at /\ cl'[c].pc = "take" /\ cl[c].pc = "scan"
      /\ ~Room(c).active[cl'[c].slot] /\ cl'[c].slot # NoSlot
      /\ clashed' = clashed \cup RoomsOf({d \in Peers(c, {"take"}) : cl[d].slot = cl'[c].slot})
  BY FindSlotDoes, SlotFacts DEF Inv, Stays
<1>2. UNCHANGED room
  BY DEF FindSlot
<1>3. SlotKept /\ SlotsDiffer
  BY DEF Inv
<1>4. ASSUME NEW d \in Clients \ {c}, cl[d].at = cl[c].at, cl[c].at \notin clashed'
      PROVE  cl[d].slot # cl'[c].slot
  <2>1. CASE cl[d].pc = "take"
    BY <1>1, <1>4, <2>1 DEF RoomsOf, Peers
  <2>2. CASE cl[d].pc # "take"
    <3>1. cl[d].slot # NoSlot => Room(d).active[cl[d].slot]
      BY <1>1, <1>3, <1>4, <2>2 DEF SlotKept
    <3> QED
      BY <1>1, <1>4, <3>1 DEF Room
  <2> QED
    BY <2>1, <2>2
<1>5. SlotKept'
  BY <1>1, <1>2, <1>3 DEF SlotKept, Moves, Room
<1>6. SlotsDiffer'
  <2> SUFFICES ASSUME NEW d \in Clients, NEW e \in Clients, d # e, cl'[d].at = cl'[e].at,
                      cl'[d].at \notin clashed', cl'[d].slot # NoSlot
               PROVE  cl'[e].slot # cl'[d].slot
    BY DEF SlotsDiffer
  <2>1. CASE d = c
    BY <1>1, <1>4, <2>1 DEF Moves
  <2>2. CASE e = c
    BY <1>1, <1>4, <2>2 DEF Moves
  <2>3. CASE d # c /\ e # c
    BY <1>1, <1>3, <2>3 DEF Moves, SlotsDiffer
  <2> QED
    BY <2>1, <2>2, <2>3
<1> QED
  BY <1>5, <1>6

\* Who has chosen a slot is there.
LEMMA OffHasNoSlot ==
  ASSUME TypeOK, NEW d \in Clients, cl[d].slot # NoSlot
  PROVE  cl[d].at \in Rooms
<1>1. cl[d] # Off /\ cl[d].at # 0
  BY StateTypes DEF TypeOK
<1>2. cl[d].at \in 0 .. made /\ made \in Nat /\ made <= MaxRooms /\ MaxRooms \in Nat
  BY StateTypes, BoundsAssumption DEF ClientStates
<1> QED
  BY <1>1, <1>2 DEF Rooms

\* Who takes its slot takes nobody else's.
LEMMA TakeSlotKeeps ==
  ASSUME Inv, NEW c \in Clients, TakeSlot(c)
  PROVE  SlotKept' /\ SlotsDiffer'
<1>1. /\ Moves(c) /\ cl'[c].at = cl[c].at /\ cl'[c].slot = cl[c].slot /\ cl'[c].pc = "index"
      /\ cl[c].slot \in Slots /\ cl[c].at \in Rooms /\ UNCHANGED clashed
      /\ \A r \in Rooms \ {cl[c].at} : room'[r] = room[r]
      /\ room'[cl[c].at].name = [Room(c).name EXCEPT ![cl[c].slot] = {c}]
      /\ room'[cl[c].at].active = [Room(c).active EXCEPT ![cl[c].slot] = TRUE]
  BY TakeSlotDoes, InARoom DEF Inv, Stays
<1>2. SlotKept /\ SlotsDiffer
  BY DEF Inv
<1>3. /\ Room(c).name \in [Slots -> Names] /\ Room(c).active \in [Slots -> BOOLEAN]
  <2>1. cl[c].pc = "take"
    BY TakeSlotDoes DEF Inv
  <2> QED
    BY <2>1, InARoom, RoomFields DEF Inv
<1>4. SlotsDiffer'
  BY <1>1, <1>2 DEF SlotsDiffer, Moves
<1>5. SlotKept'
  <2> SUFFICES ASSUME NEW d \in Clients, cl'[d].slot # NoSlot, cl'[d].pc # "take", cl'[d].at \notin clashed'
               PROVE  room'[cl'[d].at].active[cl'[d].slot] /\ room'[cl'[d].at].name[cl'[d].slot] = {d}
    BY DEF SlotKept, Room
  <2>1. CASE d = c
    BY <1>1, <1>3, <2>1
  <2>2. CASE d # c
    <3>1. /\ cl'[d] = cl[d] /\ cl[d].slot \in Slots /\ cl[d].at \in Rooms
          /\ Room(d).active[cl[d].slot] /\ Room(d).name[cl[d].slot] = {d}
      <4>1. cl'[d] = cl[d] /\ cl[d] \in ClientStates(made, acts) /\ cl[d].slot \in Slots
        BY <1>1, <2>2, StateTypes DEF Moves, Inv, ClientStates
      <4>2. cl[d].at \in Rooms
        BY <4>1, SlotFacts, OffHasNoSlot DEF Inv
      <4> QED
        BY <1>1, <1>2, <4>1, <4>2 DEF SlotKept
    <3>2. CASE cl[d].at = cl[c].at
      <4>1. cl[d].slot # cl[c].slot
        BY <1>1, <1>2, <2>2, <3>1, <3>2 DEF SlotsDiffer
      <4> QED
        BY <1>1, <1>3, <3>1, <3>2, <4>1 DEF Room
    <3>3. CASE cl[d].at # cl[c].at
      BY <1>1, <3>1, <3>3 DEF Room
    <3> QED
      BY <3>2, <3>3
  <2> QED
    BY <2>1, <2>2
<1> QED
  BY <1>4, <1>5

\* Texts and counts are no concern of a slot.
LEMMA TextsKeepSlots ==
  ASSUME Inv, NEW c \in Clients, StartCopy(c) \/ EndCopy(c) \/ StoreCount(c)
  PROVE  SlotKept' /\ SlotsDiffer'
<1>1. /\ Moves(c) /\ cl'[c].at = cl[c].at /\ cl'[c].slot = cl[c].slot /\ cl[c].pc # "take"
      /\ cl[c].pc # "off" /\ UNCHANGED clashed
      /\ \A r \in Rooms \ {cl[c].at} : room'[r] = room[r]
      /\ room'[cl[c].at].name = Room(c).name /\ room'[cl[c].at].active = Room(c).active
  <2>1. CASE StartCopy(c) \/ EndCopy(c)
    BY <2>1, CopyDoes DEF Inv, Stays
  <2>2. CASE StoreCount(c)
    <3>1. cl[c].got < MaxActs
      BY <2>2, StoresOneMore DEF StoreCount, Goes
    <3> QED
      BY <2>2, <3>1, StoreCountDoes DEF Inv, Stays
  <2> QED
    BY <2>1, <2>2
<1>2. SlotKept /\ SlotsDiffer
  BY DEF Inv
<1>3. SlotsDiffer'
  BY <1>1, <1>2 DEF SlotsDiffer, Moves
<1>4. \A r \in Rooms : room'[r].name = room[r].name /\ room'[r].active = room[r].active
  BY <1>1 DEF Room
<1>5. \A d \in Clients : cl[d].slot # NoSlot => cl[d].at \in Rooms
  BY OffHasNoSlot DEF Inv
<1>6. \A d \in Clients : cl'[d].at = cl[d].at /\ cl'[d].slot = cl[d].slot /\ (cl'[d].pc # "take" => cl[d].pc # "take")
  BY <1>1 DEF Moves
<1>7. SlotKept'
  BY <1>1, <1>2, <1>4, <1>5, <1>6 DEF SlotKept, Room
<1> QED
  BY <1>3, <1>7

LEMMA SlotsKept ==
  ASSUME Inv, NEW c \in Clients, ClientStep(c)
  PROVE  SlotKept' /\ SlotsDiffer'
<1>0. TypeOK /\ "list" \in Pcs /\ Off.slot = NoSlot
  BY StateTypes DEF Inv, Pcs
<1>1. CASE Attach(c) \/ Leave(c)
  <2>1. Moves(c) /\ cl'[c].slot = NoSlot /\ UNCHANGED <<room, clashed>>
    BY <1>0, <1>1, AttachDoes, LeaveDoes DEF Attach, Leave
  <2> QED
    BY <2>1, SlotsStay
<1>2. CASE Type(c) \/ NoFreeSlot(c) \/ LoadIndex(c) \/ FetchCount(c) \/ ListUsers(c)
  <2>1. Moves(c) /\ cl'[c].slot = cl[c].slot /\ cl'[c].at = cl[c].at /\ cl[c].pc # "take"
    BY <1>0, <1>2, TypeDoes, GoesDoes, LoadIndexDoes, FetchCountDoes, ListUsersDoes DEF NoFreeSlot, Stays
  <2>2. UNCHANGED <<room, clashed>>
    BY <1>2 DEF Type, NoFreeSlot, LoadIndex, WriteAt, FetchCount, ListUsers
  <2> QED
    BY <2>1, <2>2, SlotsStay
<1>3. CASE receive_messages(c)
  <2>1. /\ Moves(c) /\ cl'[c].slot = cl[c].slot /\ cl'[c].at = cl[c].at /\ cl'[c].pc = cl[c].pc
        /\ UNCHANGED <<room, clashed>>
    BY <1>0, <1>3, ThreadDoes DEF Stays, receive_messages, Poll, Draw
  <2> QED
    BY <2>1, SlotsStay
<1> QED
  BY <1>1, <1>2, <1>3, FindSlotDiffers, TakeSlotKeeps, TextsKeepSlots DEF ClientStep, MainStep


(***************************************************************************)
(* Posts.                                                                  *)
(***************************************************************************)
\* A step that begins no post, and writes no text and no counter.
LEMMA PostsStay ==
  ASSUME Inv, NEW c \in Clients, Moves(c), UNCHANGED spoilt,
         \A r \in Rooms : room'[r].message = room[r].message /\ room'[r].msg_count = room[r].msg_count,
         \/ cl'[c].pc \notin {"copy", "copying", "fetch", "store"}
         \/ /\ cl'[c].pc = cl[c].pc /\ cl'[c].at = cl[c].at /\ cl'[c].text = cl[c].text
            /\ cl'[c].idx = cl[c].idx /\ cl'[c].got = cl[c].got
  PROVE  OnePost'
<1>1. OnePost /\ TypeOK
  BY DEF Inv
<1> SUFFICES ASSUME NEW d \in Clients, Posting(d)', cl'[d].at \notin spoilt'
             PROVE  /\ \A e \in Clients : Posting(e)' /\ cl'[e].at = cl'[d].at => e = d
                    /\ cl'[d].pc # "store" => cl'[d].idx = Room(d)'.msg_count % SLOTS
                    /\ cl'[d].pc = "store" => cl'[d].got = Room(d)'.msg_count
                    /\ cl'[d].pc \in {"fetch", "store"} =>
                         Room(d)'.message[Room(d)'.msg_count % SLOTS] = <<d, cl'[d].text>>
  BY DEF OnePost
<1>2. /\ Posting(d) /\ cl'[d].pc = cl[d].pc /\ cl'[d].at = cl[d].at /\ cl'[d].text = cl[d].text
      /\ cl'[d].idx = cl[d].idx /\ cl'[d].got = cl[d].got
  BY DEF Moves, Posting
<1>3. cl[d].at \in Rooms
  BY <1>1, <1>2, InARoom DEF Posting
<1>4. Room(d)'.message = Room(d).message /\ Room(d)'.msg_count = Room(d).msg_count
  BY <1>2, <1>3 DEF Room
<1>5. \A e \in Clients : Posting(e)' /\ cl'[e].at = cl'[d].at => Posting(e) /\ cl[e].at = cl[d].at
  BY <1>2 DEF Moves, Posting
<1> QED
  BY <1>1, <1>2, <1>4, <1>5 DEF OnePost

\* What a post says of the others does not depend on what another room holds.
LEMMA OthersPost ==
  ASSUME Inv, NEW c \in Clients, Moves(c), UNCHANGED spoilt, cl'[c].at = cl[c].at, Posting(c),
         \A r \in Rooms \ {cl[c].at} : room'[r] = room[r],
         NEW d \in Clients \ {c}, Posting(d)', cl'[d].at \notin spoilt'
  PROVE  /\ \A e \in Clients : Posting(e)' /\ cl'[e].at = cl'[d].at => e = d
         /\ cl'[d].pc # "store" => cl'[d].idx = Room(d)'.msg_count % SLOTS
         /\ cl'[d].pc = "store" => cl'[d].got = Room(d)'.msg_count
         /\ cl'[d].pc \in {"fetch", "store"} =>
              Room(d)'.message[Room(d)'.msg_count % SLOTS] = <<d, cl'[d].text>>
<1>1. OnePost /\ TypeOK
  BY DEF Inv
<1>2. Posting(d) /\ cl'[d] = cl[d]
  BY DEF Moves, Posting
<1>3. cl[d].at \in Rooms /\ cl[d].at # cl[c].at
  BY <1>1, <1>2, InARoom DEF Posting, OnePost
<1>4. Room(d)' = Room(d)
  BY <1>2, <1>3 DEF Room
<1>5. \A e \in Clients : Posting(e)' /\ cl'[e].at = cl'[d].at => Posting(e) /\ cl[e].at = cl[d].at
  BY <1>2, <1>3 DEF Moves, Posting
<1> QED
  BY <1>1, <1>2, <1>4, <1>5 DEF OnePost

\* Whoever begins a post while another is under way spoils the room.
LEMMA LoadIndexPosts ==
  ASSUME Inv, NEW c \in Clients, LoadIndex(c)
  PROVE  OnePost'
<1>1. /\ Moves(c) /\ cl'[c].at = cl[c].at /\ cl[c].pc = "index" /\ cl'[c].pc = "copy"
      /\ cl'[c].idx = Room(c).msg_count % SLOTS /\ UNCHANGED room
  BY LoadIndexDoes DEF Inv, Stays, LoadIndex, WriteAt
<1>2. spoilt' = spoilt \cup RoomsOf(Peers(c, {"copy", "copying", "fetch", "store"}))
  BY DEF LoadIndex, WriteAt
<1>3. OnePost /\ TypeOK
  BY DEF Inv
<1> SUFFICES ASSUME NEW d \in Clients, Posting(d)', cl'[d].at \notin spoilt'
             PROVE  /\ \A e \in Clients : Posting(e)' /\ cl'[e].at = cl'[d].at => e = d
                    /\ cl'[d].pc # "store" => cl'[d].idx = Room(d)'.msg_count % SLOTS
                    /\ cl'[d].pc = "store" => cl'[d].got = Room(d)'.msg_count
                    /\ cl'[d].pc \in {"fetch", "store"} =>
                         Room(d)'.message[Room(d)'.msg_count % SLOTS] = <<d, cl'[d].text>>
  BY DEF OnePost
<1>4. \A e \in Clients \ {c} : cl'[e] = cl[e] /\ (Posting(e)' <=> Posting(e))
  BY <1>1 DEF Moves, Posting
<1>5. CASE d = c
  <2>1. \A e \in Clients \ {c} : Posting(e) => cl[e].at # cl[c].at
    BY <1>1, <1>2, <1>5 DEF RoomsOf, Peers, Posting
  <2>2. Room(c)' = Room(c)
    BY <1>1 DEF Room
  <2> QED
    BY <1>1, <1>4, <1>5, <2>1, <2>2
<1>6. CASE d # c
  <2>1. Posting(d) /\ cl'[d] = cl[d] /\ cl[d].at \notin spoilt /\ Room(d)' = Room(d)
    BY <1>1, <1>2, <1>4, <1>6 DEF Room
  <2>2. cl[d].at # cl[c].at
    <3>1. CASE cl[d].at = cl[c].at
      <4>1. d \in Peers(c, {"copy", "copying", "fetch", "store"})
        BY <1>6, <2>1, <3>1 DEF Peers, Posting
      <4> QED
        BY <1>2, <2>1, <4>1 DEF RoomsOf
    <3> QED
      BY <3>1
  <2> QED
    BY <1>1, <1>3, <1>4, <2>1, <2>2 DEF OnePost
<1> QED
  BY <1>5, <1>6

\* The steps of the post itself.
LEMMA PostGoesOn ==
  ASSUME Inv, NEW c \in Clients, StartCopy(c) \/ EndCopy(c) \/ FetchCount(c)
  PROVE  OnePost'
<1>1. /\ Moves(c) /\ UNCHANGED spoilt /\ cl'[c].at = cl[c].at /\ cl'[c].text = cl[c].text
      /\ Posting(c) /\ cl[c].pc # "store" /\ cl[c].at \in Rooms
      /\ \A r \in Rooms \ {cl[c].at} : room'[r] = room[r]
      /\ room'[cl[c].at].msg_count = Room(c).msg_count
  <2>1. CASE StartCopy(c) \/ EndCopy(c)
    BY <2>1, CopyDoes, InARoom DEF Inv, Stays, Posting
  <2>2. CASE FetchCount(c)
    BY <2>2, FetchCountDoes, InARoom DEF Inv, Stays, Posting, FetchCount, Room
  <2> QED
    BY <2>1, <2>2
<1>2. OnePost /\ TypeOK
  BY DEF Inv
<1>3. ASSUME cl[c].at \notin spoilt
      PROVE  /\ \A e \in Clients : Posting(e) /\ cl[e].at = cl[c].at => e = c
             /\ cl[c].idx = Room(c).msg_count % SLOTS
             /\ cl[c].pc \in {"fetch", "store"} =>
                  Room(c).message[Room(c).msg_count % SLOTS] = <<c, cl[c].text>>
  BY <1>1, <1>2, <1>3 DEF OnePost
<1> SUFFICES ASSUME NEW d \in Clients, Posting(d)', cl'[d].at \notin spoilt'
             PROVE  /\ \A e \in Clients : Posting(e)' /\ cl'[e].at = cl'[d].at => e = d
                    /\ cl'[d].pc # "store" => cl'[d].idx = Room(d)'.msg_count % SLOTS
                    /\ cl'[d].pc = "store" => cl'[d].got = Room(d)'.msg_count
                    /\ cl'[d].pc \in {"fetch", "store"} =>
                         Room(d)'.message[Room(d)'.msg_count % SLOTS] = <<d, cl'[d].text>>
  BY DEF OnePost
<1>4. CASE d # c
  BY <1>1, <1>4, OthersPost
<1>5. CASE d = c
  <2>1. \A e \in Clients : Posting(e)' /\ cl'[e].at = cl'[c].at => e = c
    BY <1>1, <1>3, <1>5 DEF Moves, Posting
  <2>2. Room(c)' = room'[cl[c].at] /\ Room(c)'.msg_count = Room(c).msg_count
    BY <1>1 DEF Room
  <2>3. CASE StartCopy(c)
    <3>1. cl'[c].pc = "copying" /\ cl'[c].idx = cl[c].idx
      BY <1>2, <2>3, CopyDoes DEF Inv
    <3> QED
      BY <1>1, <1>3, <1>5, <2>1, <2>2, <3>1
  <2>4. CASE EndCopy(c)
    <3>1. cl'[c].pc = "fetch" /\ cl'[c].idx = cl[c].idx /\ room'[cl[c].at].message[cl[c].idx] = <<c, cl[c].text>>
      <4>1. ~StartCopy(c)
        BY <2>4 DEF StartCopy, EndCopy, Goes
      <4> QED
        BY <1>1, <1>2, <1>5, <2>4, <4>1, CopyDoes DEF Inv
    <3> QED
      BY <1>1, <1>3, <1>5, <2>1, <2>2, <3>1
  <2>5. CASE FetchCount(c)
    <3>1. cl[c].pc = "fetch" /\ cl'[c].pc = "store" /\ cl'[c].got = Room(c).msg_count /\ UNCHANGED room
      BY <1>2, <2>5, FetchCountDoes DEF FetchCount
    <3> QED
      BY <1>1, <1>3, <1>5, <2>1, <2>2, <3>1 DEF Room
  <2> QED
    BY <2>3, <2>4, <2>5
<1> QED
  BY <1>4, <1>5

LEMMA StoreCountPosts ==
  ASSUME Inv, NEW c \in Clients, StoreCount(c)
  PROVE  OnePost'
<1>1. /\ Moves(c) /\ UNCHANGED spoilt /\ cl'[c].at = cl[c].at /\ cl'[c].pc = "list" /\ Posting(c)
      /\ \A r \in Rooms \ {cl[c].at} : room'[r] = room[r]
  <2>1. cl[c].pc = "store"
    BY DEF StoreCount, Goes
  <2> QED
    BY <2>1, StoresOneMore, StoreCountDoes DEF Inv, Stays, Posting
<1>2. ~Posting(c)'
  BY <1>1 DEF Posting
<1> QED
  BY <1>1, <1>2, OthersPost DEF OnePost

LEMMA PostsKept ==
  ASSUME Inv, NEW c \in Clients, ClientStep(c)
  PROVE  OnePost'
<1>0. TypeOK /\ "list" \in Pcs /\ Off.pc = "off" /\ Moves(c)
  BY StateTypes, TypesKept DEF Inv, Pcs
<1>1. CASE Attach(c) \/ Leave(c) \/ Type(c) \/ NoFreeSlot(c) \/ ListUsers(c) \/ FindSlot(c)
  <2>1. cl'[c].pc \notin {"copy", "copying", "fetch", "store"}
    BY <1>0, <1>1, AttachDoes, LeaveDoes, TypeDoes, GoesDoes, ListUsersDoes, FindSlotDoes DEF NoFreeSlot
  <2>2. UNCHANGED <<room, spoilt>>
    BY <1>1 DEF Attach, Leave, Type, NoFreeSlot, ListUsers, FindSlot
  <2> QED
    BY <1>0, <2>1, <2>2, PostsStay
<1>2. CASE TakeSlot(c)
  <2>1. cl'[c].pc = "index" /\ UNCHANGED spoilt /\ cl[c].at \in Rooms
    BY <1>0, <1>2, TakeSlotDoes, InARoom
  <2>2. \A r \in Rooms : room'[r].message = room[r].message /\ room'[r].msg_count = room[r].msg_count
    BY <1>0, <1>2, TakeSlotDoes DEF Room
  <2> QED
    BY <1>0, <2>1, <2>2, PostsStay
<1>3. CASE receive_messages(c)
  <2>1. UNCHANGED <<room, spoilt>>
    BY <1>3 DEF receive_messages, Poll, Draw
  <2> QED
    BY <1>0, <1>3, <2>1, ThreadDoes, PostsStay DEF Stays
<1> QED
  BY <1>1, <1>2, <1>3, LoadIndexPosts, PostGoesOn, StoreCountPosts DEF ClientStep, MainStep

(***************************************************************************)
(* The server, and the invariant.                                          *)
(***************************************************************************)
LEMMA ServerKeeps ==
  ASSUME Inv, MakeRoom \/ initialize_chat_room \/ cleanup
  PROVE  Inv'
<1>1. TypeOK' /\ TypeOK /\ Budget /\ Numbered /\ SlotKept /\ SlotsDiffer /\ OnePost
  BY ServerTypes DEF Inv
<1>2. UNCHANGED <<cl, acts>>
  BY DEF MakeRoom, initialize_chat_room, cleanup
<1>3. UNCHANGED <<room, spoilt, clashed>> \/ initialize_chat_room
  BY DEF MakeRoom, cleanup
<1>4. \A r \in Rooms : room'[r] = room[r] \/ (room'[r] = FreshRoom /\ r \in spoilt' /\ r \in clashed')
  <2>1. CASE initialize_chat_room
    <3>1. room \in [Rooms -> RoomStates]
      BY <1>1, StateTypes
    <3>2. /\ room' = [room EXCEPT ![made] = FreshRoom]
          /\ spoilt' = spoilt \cup {r \in Rooms : room'[r] # room[r]}
          /\ clashed' = clashed \cup {r \in Rooms : room'[r] # room[r]}
      BY <2>1 DEF initialize_chat_room
    <3>3. \A r \in Rooms : room'[r] = room[r] \/ room'[r] = FreshRoom
      BY <3>1, <3>2
    <3> QED
      BY <3>2, <3>3
  <2> QED
    BY <1>3, <2>1
<1>5. spoilt \subseteq spoilt' /\ clashed \subseteq clashed'
  BY <1>3 DEF initialize_chat_room
<1>6. Busy' = Busy /\ Cardinality(Busy) \in Nat
  <2>1. IsFiniteSet(Busy)
    BY ClientsFinite, FS_Subset DEF Busy
  <2> QED
    BY <1>2, <2>1, FS_CardinalityType DEF Busy, Posting
<1>7. Budget'
  <2>1. \A r \in Rooms : room[r].msg_count \in Nat /\ acts \in Nat
    BY <1>1, BudgetTypes
  <2>2. FreshRoom.msg_count = 0
    BY DEF FreshRoom
  <2>3. \A r \in Rooms : room'[r].msg_count <= room[r].msg_count /\ room'[r].msg_count \in Nat
    BY <1>4, <2>1, <2>2
  <2> QED
    BY <1>1, <1>2, <1>6, <2>1, <2>3 DEF Budget
<1>8. \A d \in Clients : cl[d].slot # NoSlot \/ Posting(d) => cl[d].at \in Rooms
  BY <1>1, OffHasNoSlot, InARoom DEF Posting
<1>9. Numbered' /\ SlotKept' /\ SlotsDiffer'
  BY <1>1, <1>2, <1>4, <1>5, <1>8 DEF Numbered, SlotKept, SlotsDiffer, Room
<1>10. OnePost'
  <2>1. \A d \in Clients : Posting(d)' <=> Posting(d)
    BY <1>2 DEF Posting
  <2>2. \A d \in Clients : Posting(d) /\ cl[d].at \notin spoilt' => Room(d)' = Room(d) /\ cl[d].at \notin spoilt
    BY <1>2, <1>4, <1>5, <1>8 DEF Room
  <2> QED
    BY <1>1, <1>2, <2>1, <2>2 DEF OnePost
<1> QED
  BY <1>1, <1>7, <1>9, <1>10 DEF Inv

LEMMA InitInv == Init => Inv
<1> SUFFICES ASSUME Init PROVE Inv
  OBVIOUS
<1>1. /\ made = 0 /\ acts = 0 /\ cl = [c \in Clients |-> Off] /\ room = [r \in Rooms |-> FreshRoom]
      /\ spoilt = {} /\ clashed = {}
  BY DEF Init
<1>2. Off \in ClientStates(0, 0) /\ Off.pc = "off" /\ Off.at = 0 /\ Off.slot = NoSlot /\ FreshRoom \in RoomStates
  BY StateTypes
<1>3. TypeOK
  <2>1. made = 0 /\ keyed = FALSE /\ fresh = FALSE /\ acts = 0 /\ joined = {} /\ spoilt = {} /\ clashed = {}
    BY DEF Init
  <2>2. cl \in [Clients -> ClientStates(made, acts)] /\ room \in [Rooms -> RoomStates]
    BY <1>1, <1>2
  <2>3. \A c \in Clients : /\ cl[c].at = 0 <=> cl[c] = Off
                           /\ cl[c].pc = "take" => cl[c].slot \in Slots
    BY <1>1, <1>2
  <2>4. 0 \in 0 .. MaxRooms /\ 0 \in 0 .. MaxActs
    BY BoundsAssumption
  <2>5. Typed
    BY <2>1, <2>2, <2>3, <2>4 DEF Typed
  <2> QED
    BY <2>5, TypedIsTypeOK
<1>4. Busy = {} /\ FreshRoom.msg_count = 0
  BY <1>1, <1>2 DEF Busy, Posting, FreshRoom
<1>5. Budget
  BY <1>1, <1>2, <1>4, FS_EmptySet DEF Budget
<1> QED
  BY <1>1, <1>2, <1>3, <1>5 DEF Inv, Numbered, SlotKept, SlotsDiffer, OnePost, Posting

LEMMA NextInv ==
  ASSUME Inv, [Next]_vars
  PROVE  Inv'
<1>1. CASE MakeRoom \/ initialize_chat_room \/ cleanup
  BY <1>1, ServerKeeps
<1>2. ASSUME NEW c \in Clients, ClientStep(c)
      PROVE  Inv'
  <2>1. TypeOK'
    BY <1>2, TypesKept
  <2>2. Budget' /\ Numbered'
    BY <1>2, <2>1, BudgetKept, NumberedKept
  <2>3. SlotKept' /\ SlotsDiffer'
    BY <1>2, SlotsKept
  <2>4. OnePost'
    BY <1>2, PostsKept
  <2> QED
    BY <2>1, <2>2, <2>3, <2>4 DEF Inv
<1>3. CASE UNCHANGED vars
  BY <1>3 DEF vars, serverVars, Inv, TypeOK, Budget, Busy, Posting, Numbered, SlotKept, SlotsDiffer, OnePost, Room
<1> QED
  BY <1>1, <1>2, <1>3 DEF Next, ClientStep

LEMMA Invariance == Spec => []Inv
<1>1. Init => Inv
  BY InitInv
<1>2. Inv /\ [Next]_vars => Inv'
  BY NextInv
<1> QED
  BY <1>1, <1>2, PTL DEF Spec

\* The type invariant: indices stay in the ring, and the counter of a room within
\* the texts that were begun.
THEOREM TypeCorrect == Spec => []TypeOK
<1>1. Inv => TypeOK
  BY DEF Inv
<1> QED
  BY <1>1, Invariance, PTL

\* A slot that register_client took without a clash stays the client's.
THEOREM SlotKeptHolds == Spec => []SlotKept
<1>1. Inv => SlotKept
  BY DEF Inv
<1> QED
  BY <1>1, Invariance, PTL


(***************************************************************************)
(* The ring of a room as a log.                                            *)
(***************************************************************************)
\* The latest texts of a room in the state q.
Held(m) == IF m <= SLOTS - 1 THEN m ELSE SLOTS - 1

RecentIn(m, message) == [j \in 1 .. Held(m) |-> message[(m - Held(m) + j - 1) % SLOTS]]

RecentOf(q) == RecentIn(q.msg_count, q.message)

LEMMA RecentIs ==
  ASSUME NEW r \in Rooms, room[r] \in RoomStates
  PROVE  Recent(r) = RecentOf(room[r])
<1>1. room[r].msg_count \in Nat /\ SLOTS - 1 \in Nat
  BY RoomFields, SlotFacts, BoundsAssumption
<1>2. \A m, k \in Nat : Min({m, k}) = IF m <= k THEN m ELSE k
  BY DEF Min
<1>3. Min({room[r].msg_count, SLOTS - 1}) = Held(room[r].msg_count)
  BY <1>1, <1>2 DEF Held
<1> QED
  BY <1>3 DEF Recent, RecentOf, RecentIn

\* Where the latest of l texts begin.
First(l) == IF l <= SLOTS - 1 THEN 1 ELSE l - SLOTS + 2

LEMMA LatestIs ==
  ASSUME NEW T, NEW s \in Seq(T)
  PROVE  Log!Latest(s) = SubSeq(s, First(Len(s)), Len(s))
<1> DEFINE k == Len(s) - (SLOTS - 1)
<1>1. Len(s) \in Nat /\ SLOTS \in Nat /\ SLOTS - 1 \in Nat /\ k \in Int
  BY SlotFacts
<1>2. /\ k <= 0 => First(Len(s)) = 0 + 1
      /\ k > 0 => First(Len(s)) = k + 1
  BY <1>1 DEF First
<1> HIDE DEF k
<1>3. Log!Max({0, k}) = IF k <= 0 THEN 0 ELSE k
  BY <1>1 DEF Log!Max
<1>4. Log!Max({0, k}) + 1 = First(Len(s))
  BY <1>1, <1>2, <1>3
<1> QED
  BY <1>4 DEF Log!Latest, k

\* Texts less than a whole ring apart have different indices.
LEMMA OtherIndex ==
  ASSUME NEW a \in Nat, NEW d \in 1 .. SLOTS - 1, d <= a
  PROVE  (a - d) % SLOTS # a % SLOTS
<1>1. SLOTS \in Nat \ {0} /\ a - d \in Nat
  BY SlotFacts
<1> SUFFICES ASSUME (a - d) % SLOTS = a % SLOTS
             PROVE  FALSE
  OBVIOUS
<1>2. ASSUME NEW b \in Nat
      PROVE  b \div SLOTS \in Nat /\ b % SLOTS \in Nat /\ b = SLOTS * (b \div SLOTS) + (b % SLOTS)
  BY <1>1, SMT
<1> DEFINE x == a \div SLOTS
           y == (a - d) \div SLOTS
           z == a % SLOTS
<1>3. x \in Nat /\ y \in Nat /\ z \in Nat /\ a = SLOTS * x + z /\ a - d = SLOTS * y + z
  BY <1>1, <1>2
<1> HIDE DEF x, y, z
<1>4. d = SLOTS * (x - y)
  BY <1>1, <1>3
<1> DEFINE w == x - y
<1>7. w \in Int /\ d = SLOTS * w /\ d >= 1 /\ d < SLOTS /\ (x <= y => w <= 0) /\ (x >= y + 1 => w >= 1)
  BY <1>1, <1>3, <1>4
<1> HIDE DEF w
<1>5. CASE w <= 0
  <2>1. SLOTS * w <= 0
    BY <1>1, <1>5, <1>7
  <2> QED
    BY <1>7, <2>1
<1>6. CASE w >= 1
  <2>1. SLOTS * w >= SLOTS
    BY <1>1, <1>6, <1>7
  <2> QED
    BY <1>1, <1>7, <2>1
<1> QED
  BY <1>5, <1>6, <1>7

\* The slot after the latest text is not among the latest.
LEMMA WrittenNext ==
  ASSUME NEW q \in RoomStates, NEW p \in RoomStates, p.msg_count = q.msg_count,
         \A i \in Slots \ {q.msg_count % SLOTS} : p.message[i] = q.message[i]
  PROVE  RecentOf(p) = RecentOf(q)
<1>1. q.msg_count \in Nat /\ SLOTS - 1 \in Nat
  BY RoomFields, SlotFacts, BoundsAssumption
<1>2. Held(q.msg_count) \in 0 .. SLOTS - 1 /\ Held(q.msg_count) <= q.msg_count
  BY <1>1 DEF Held
<1>3. ASSUME NEW j \in 1 .. Held(q.msg_count)
      PROVE  LET i == (q.msg_count - Held(q.msg_count) + j - 1) % SLOTS
             IN  p.message[i] = q.message[i]
  <2> DEFINE d == Held(q.msg_count) - j + 1
  <2>1. d \in 1 .. SLOTS - 1 /\ d <= q.msg_count /\ q.msg_count - Held(q.msg_count) + j - 1 = q.msg_count - d
    BY <1>1, <1>2
  <2> HIDE DEF d
  <2>2. (q.msg_count - d) % SLOTS # q.msg_count % SLOTS /\ q.msg_count - d \in Nat
    BY <1>1, <2>1, OtherIndex
  <2>3. (q.msg_count - d) % SLOTS \in Slots
    BY <2>2, SlotFacts
  <2> QED
    BY <2>1, <2>2, <2>3
<1> QED
  BY <1>3 DEF RecentOf, RecentIn

\* Counting the text in the next slot appends it.
LEMMA CountedNext ==
  ASSUME NEW q \in RoomStates, NEW p \in RoomStates, p.msg_count = q.msg_count + 1, p.message = q.message,
         NEW t, q.message[q.msg_count % SLOTS] = t
  PROVE  RecentOf(p) = Log!Latest(Append(RecentOf(q), t))
<1> DEFINE m == q.msg_count
           n == Held(m)
           s == RecentOf(q)
           T == Texts \cup {EMPTY, TORN}
           u == Append(s, t)
           k == First(n + 1)
           g(i) == q.message[i % SLOTS]
<1>1. m \in Nat /\ SLOTS \in Nat \ {0} /\ n \in Nat /\ q.message \in [Slots -> T]
  BY RoomFields, SlotFacts, BoundsAssumption DEF Held
<1>2. n <= m /\ n <= SLOTS - 1 /\ (n < m => n = SLOTS - 1) /\ Held(m + 1) = n + 1 - (k - 1) /\ k \in {1, 2}
  BY <1>1 DEF Held, First
<1>3. s \in Seq(T) /\ Len(s) = n /\ \A j \in 1 .. n : s[j] = g(m - n + j - 1)
  <2>1. s = [j \in 1 .. n |-> g(m - n + j - 1)]
    BY DEF RecentOf, RecentIn
  <2>2. \A j \in 1 .. n : g(m - n + j - 1) \in T
    <3>1. \A j \in 1 .. n : (m - n + j - 1) % SLOTS \in Slots
      BY <1>1, <1>2, SlotFacts
    <3> QED
      BY <1>1, <3>1
  <2> HIDE DEF s, g, n, m, T
  <2> QED
    BY <1>1, <2>1, <2>2
<1>4. t = g(m) /\ t \in T
  BY <1>1, SlotFacts
<1>5. RecentOf(p) = [j \in 1 .. Held(m + 1) |-> g((m + 1) - Held(m + 1) + j - 1)]
  <2>1. RecentOf(p) = RecentIn(m + 1, q.message)
    BY DEF RecentOf
  <2>2. RecentIn(m + 1, q.message) = [j \in 1 .. Held(m + 1) |-> g((m + 1) - Held(m + 1) + j - 1)]
    BY DEF RecentIn
  <2> QED
    BY <2>1, <2>2
<1> HIDE DEF s, g, n, m, T, k
<1>6. u \in Seq(T) /\ Len(u) = n + 1 /\ \A j \in 1 .. n + 1 : u[j] = g(m - n + j - 1)
  <2>1. u \in Seq(T) /\ Len(u) = n + 1 /\ \A j \in 1 .. n : u[j] = s[j]
    BY <1>3, <1>4, AppendProperties
  <2>2. u[n + 1] = g(m - n + (n + 1) - 1)
    <3>1. u[n + 1] = t /\ m - n + (n + 1) - 1 = m
      BY <1>1, <1>3, <1>4, AppendProperties
    <3> QED
      BY <1>4, <3>1
  <2>3. ASSUME NEW j \in 1 .. n + 1
        PROVE  u[j] = g(m - n + j - 1)
    <3>1. CASE j \in 1 .. n
      BY <1>3, <2>1, <3>1
    <3>2. CASE j = n + 1
      BY <2>2, <3>2
    <3>3. j \in 1 .. n \/ j = n + 1
      <4>1. n \in Nat
        BY <1>1
      <4> QED
        BY <4>1
    <3> QED
      BY <3>1, <3>2, <3>3
  <2> QED
    BY <2>1, <2>3
<1> HIDE DEF u
<1>7. Log!Latest(u) = SubSeq(u, k, n + 1)
  BY <1>6, LatestIs DEF k
<1>8. SubSeq(u, k, n + 1) = [j \in 1 .. Held(m + 1) |-> g((m + 1) - Held(m + 1) + j - 1)]
  <2>1. /\ SubSeq(u, k, n + 1) \in Seq(T) /\ Len(SubSeq(u, k, n + 1)) = Held(m + 1)
        /\ \A j \in 1 .. Held(m + 1) : SubSeq(u, k, n + 1)[j] = u[k + j - 1]
    <3>1. \A i \in k .. n + 1 : u[i] \in T
      BY <1>1, <1>2, <1>6, ElementOfSeq
    <3> QED
      BY <1>1, <1>2, <3>1, SubSeqProperties
  <2>3. \A j \in 1 .. Held(m + 1) : u[k + j - 1] = g((m + 1) - Held(m + 1) + j - 1)
    <3>1. \A j \in 1 .. Held(m + 1) :
            k + j - 1 \in 1 .. n + 1 /\ m - n + (k + j - 1) - 1 = (m + 1) - Held(m + 1) + j - 1
      <4> DEFINE h == Held(m + 1)
      <4>1. h = n + 1 - (k - 1) /\ k \in 1 .. 2 /\ h \in Int
        BY <1>1, <1>2
      <4> HIDE DEF h
      <4> SUFFICES ASSUME NEW j \in 1 .. h
                   PROVE  k + j - 1 \in 1 .. n + 1 /\ m - n + (k + j - 1) - 1 = (m + 1) - h + j - 1
        BY DEF h
      <4> QED
        BY <1>1, <4>1
    <3> QED
      BY <1>6, <3>1
  <2> QED
    BY <2>1, <2>3
<1> QED
  BY <1>5, <1>7, <1>8 DEF u, s

(***************************************************************************)
(* A step of the chat is a step of the log, or none.                       *)
(***************************************************************************)
Lengths == [r \in Rooms |-> IF r \in spoilt THEN 0 ELSE room[r].msg_count]
Shown   == [r \in Rooms |-> IF r \in spoilt THEN <<>> ELSE Recent(r)]

LogStep == (\E r \in Rooms : Log!Spoil(r) \/ \E t \in Texts : Log!Post(r, t)) \/ UNCHANGED <<Lengths, Shown, spoilt>>

RecentsAre == \A r \in Rooms : Recent(r) = RecentOf(room[r])

LEMMA TypedRecents == TypeOK => RecentsAre
BY RecentIs, StateTypes DEF RecentsAre

LEMMA TypedRecentsNext == (TypeOK => RecentsAre)'
BY TypedRecents, PTL

\* The rooms whose ring still counts keep it.
LEMMA RingStays ==
  ASSUME TypeOK, TypeOK', UNCHANGED spoilt,
         \A r \in Rooms \ spoilt : /\ room'[r].msg_count = room[r].msg_count
                                   /\ RecentOf(room'[r]) = RecentOf(room[r])
  PROVE  LogStep
<1>1. RecentsAre /\ RecentsAre'
  BY TypedRecents, TypedRecentsNext
<1>2. \A r \in Rooms \ spoilt : Recent(r)' = Recent(r)
  BY <1>1 DEF RecentsAre
<1>3. Lengths' = Lengths
  BY DEF Lengths
<1>4. Shown' = Shown
  BY <1>2 DEF Shown
<1> QED
  BY <1>3, <1>4 DEF LogStep

\* At most the room r is spoilt, and the others keep their rings.
LEMMA RingSpoils ==
  ASSUME TypeOK, TypeOK', NEW r \in Rooms, spoilt' = spoilt \/ spoilt' = spoilt \cup {r},
         \A p \in Rooms : room'[p] = room[p] \/ (p = r /\ r \in spoilt')
  PROVE  LogStep
<1>1. CASE r \in spoilt \/ spoilt' = spoilt
  <2>1. UNCHANGED spoilt
    BY <1>1
  <2> QED
    BY <2>1, RingStays
<1>2. CASE r \notin spoilt /\ spoilt' = spoilt \cup {r}
  <2>1. RecentsAre /\ RecentsAre'
    BY TypedRecents, TypedRecentsNext
  <2>2. \A p \in Rooms \ {r} : Recent(p)' = Recent(p) /\ room'[p] = room[p] /\ (p \in spoilt' <=> p \in spoilt)
    BY <1>2, <2>1 DEF RecentsAre
  <2>3. Lengths' = [Lengths EXCEPT ![r] = 0]
    BY <1>2, <2>2 DEF Lengths
  <2>4. Shown' = [Shown EXCEPT ![r] = <<>>]
    BY <1>2, <2>2 DEF Shown
  <2>5. Log!Spoil(r)
    BY <1>2, <2>3, <2>4 DEF Log!Spoil, Lengths, Shown
  <2> QED
    BY <2>5 DEF LogStep
<1> QED
  BY <1>1, <1>2

\* The text that is counted is the one in the next slot.
LEMMA RingPosts ==
  ASSUME Inv, TypeOK', NEW c \in Clients, StoreCount(c)
  PROVE  LogStep
<1>1. TypeOK /\ cl[c].pc = "store" /\ cl[c].got < MaxActs
  BY StoresOneMore DEF Inv, StoreCount, Goes
<1>2. /\ cl[c].at \in Rooms /\ UNCHANGED spoilt
      /\ \A r \in Rooms \ {cl[c].at} : room'[r] = room[r]
      /\ room'[cl[c].at].message = Room(c).message /\ room'[cl[c].at].msg_count = cl[c].got + 1
  BY <1>1, StoreCountDoes, InARoom
<1>5. PICK r \in Rooms, t \in {<<c, cl[c].text>>} : r = cl[c].at /\ t = <<c, cl[c].text>>
  BY <1>2
<1>3. CASE r \in spoilt
  BY <1>1, <1>2, <1>3, <1>5, RingStays
<1>4. CASE r \notin spoilt
  <2>1. cl[c].got = room[r].msg_count /\ room[r].message[room[r].msg_count % SLOTS] = t
    BY <1>1, <1>4, <1>5 DEF Inv, OnePost, Posting, Room
  <2>2. t \in Texts
    <3>1. cl[c] \in ClientStates(made, acts) /\ acts \in Nat /\ acts <= MaxActs /\ MaxActs \in Nat
      BY <1>1, StateTypes, BoundsAssumption
    <3>2. cl[c].text > 0
      BY <1>1 DEF Inv, Numbered
    <3> QED
      BY <1>5, <3>1, <3>2 DEF ClientStates, Texts
  <2>3. room \in [Rooms -> RoomStates] /\ room' \in [Rooms -> RoomStates]
    BY <1>1, StateTypes, TypedIsTypeOKNext DEF Typed
  <2>4. RecentOf(room'[r]) = Log!Latest(Append(RecentOf(room[r]), t))
    <3>1. room[r] \in RoomStates /\ room'[r] \in RoomStates
      BY <1>2, <2>3
    <3>2. room'[r].msg_count = room[r].msg_count + 1 /\ room'[r].message = room[r].message
      BY <1>2, <1>5, <2>1 DEF Room
    <3> QED
      BY <2>1, <3>1, <3>2, CountedNext
  <2>5. RecentsAre /\ RecentsAre'
    BY <1>1, TypedRecents, TypedRecentsNext
  <2>6. Lengths' = [Lengths EXCEPT ![r] = @ + 1]
    <3>1. /\ \A p \in Rooms \ {r} : room'[p] = room[p]
          /\ room'[r].msg_count = room[r].msg_count + 1
      BY <1>2, <1>5, <2>1
    <3> QED
      BY <1>2, <1>4, <2>5, <3>1 DEF Lengths
  <2>7. Shown' = [Shown EXCEPT ![r] = Log!Latest(Append(@, t))]
    <3>1. \A p \in Rooms \ {r} : Recent(p)' = Recent(p)
      BY <1>2, <1>5, <2>5 DEF RecentsAre
    <3>2. Recent(r)' = Log!Latest(Append(Recent(r), t))
      BY <2>4, <2>5 DEF RecentsAre
    <3> QED
      BY <1>2, <1>4, <2>5, <3>1, <3>2 DEF Shown
  <2>8. Log!Post(r, t)
    BY <1>2, <1>4, <2>6, <2>7 DEF Log!Post, Lengths, Shown
  <2> QED
    BY <2>2, <2>5, <2>8 DEF LogStep
<1> QED
  BY <1>3, <1>4

\* A text is written in the next slot, which is not among the latest.
LEMMA RingIsWritten ==
  ASSUME Inv, TypeOK', NEW c \in Clients, StartCopy(c) \/ EndCopy(c)
  PROVE  LogStep
<1>1. TypeOK /\ Numbered
  BY DEF Inv
<1>2. /\ cl[c].pc \in {"copy", "copying"} /\ UNCHANGED spoilt
      /\ \A r \in Rooms \ {cl[c].at} : room'[r] = room[r]
      /\ \A i \in Slots \ {cl[c].idx} : room'[cl[c].at].message[i] = Room(c).message[i]
      /\ room'[cl[c].at].msg_count = Room(c).msg_count
  BY <1>1, CopyDoes
<1>3. cl[c].at \in Rooms /\ room \in [Rooms -> RoomStates] /\ room' \in [Rooms -> RoomStates]
  BY <1>1, <1>2, InARoom, StateTypes, TypedIsTypeOKNext DEF Typed
<1>4. ASSUME cl[c].at \notin spoilt
      PROVE  RecentOf(room'[cl[c].at]) = RecentOf(room[cl[c].at])
  <2>1. cl[c].idx = room[cl[c].at].msg_count % SLOTS
    BY <1>2, <1>4 DEF Inv, OnePost, Posting, Room
  <2> DEFINE q == room[cl[c].at]
             p == room'[cl[c].at]
  <2>2. /\ q \in RoomStates /\ p \in RoomStates /\ p.msg_count = q.msg_count
        /\ \A i \in Slots \ {q.msg_count % SLOTS} : p.message[i] = q.message[i]
    BY <1>2, <1>3, <2>1 DEF Room
  <2> HIDE DEF q, p
  <2>3. RecentOf(p) = RecentOf(q)
    BY <2>2, WrittenNext
  <2> QED
    BY <2>3 DEF q, p
<1>5. \A r \in Rooms \ spoilt : /\ room'[r].msg_count = room[r].msg_count
                                /\ RecentOf(room'[r]) = RecentOf(room[r])
  BY <1>2, <1>4 DEF Room
<1> QED
  BY <1>1, <1>2, <1>5, RingStays

LEMMA ClientLogs ==
  ASSUME Inv, TypeOK', NEW c \in Clients, ClientStep(c)
  PROVE  LogStep
<1>1. TypeOK
  BY DEF Inv
<1>2. CASE LoadIndex(c)
  <2>1. cl[c].at \in Rooms /\ UNCHANGED room
    BY <1>1, <1>2, LoadIndexDoes, InARoom DEF LoadIndex, WriteAt
  <2>2. spoilt' = spoilt \/ spoilt' = spoilt \cup {cl[c].at}
    <3>1. spoilt' = spoilt \cup RoomsOf(Peers(c, {"copy", "copying", "fetch", "store"}))
      BY <1>2 DEF LoadIndex, WriteAt
    <3>2. RoomsOf(Peers(c, {"copy", "copying", "fetch", "store"})) \subseteq {cl[c].at}
      BY DEF RoomsOf, Peers
    <3> QED
      BY <3>1, <3>2
  <2> QED
    BY <1>1, <2>1, <2>2, RingSpoils
<1>3. CASE TakeSlot(c)
  <2>1. /\ cl[c].at \in Rooms /\ UNCHANGED spoilt
        /\ \A r \in Rooms \ {cl[c].at} : room'[r] = room[r]
        /\ room'[cl[c].at].message = Room(c).message /\ room'[cl[c].at].msg_count = Room(c).msg_count
    BY <1>1, <1>3, TakeSlotDoes, InARoom
  <2> QED
    BY <1>1, <2>1, RingStays DEF RecentOf, Room
<1>4. CASE UNCHANGED <<room, spoilt>>
  BY <1>1, <1>4, RingStays
<1>5. \/ LoadIndex(c) \/ TakeSlot(c) \/ StartCopy(c) \/ EndCopy(c) \/ StoreCount(c)
      \/ UNCHANGED <<room, spoilt>>
  BY Elsewhere DEF ClientStep
<1> QED
  BY <1>2, <1>3, <1>4, <1>5, RingPosts, RingIsWritten

LEMMA ServerLogs ==
  ASSUME Inv, TypeOK', MakeRoom \/ initialize_chat_room \/ cleanup
  PROVE  LogStep
<1>1. TypeOK
  BY DEF Inv
<1>2. CASE initialize_chat_room
  <2>1. /\ room' = [room EXCEPT ![made] = FreshRoom] /\ room \in [Rooms -> RoomStates]
        /\ spoilt' = spoilt \cup {r \in Rooms : room'[r] # room[r]}
    BY <1>1, <1>2, StateTypes DEF initialize_chat_room
  <2>2. CASE room' = room
    BY <1>1, <2>1, <2>2, RingStays
  <2>3. CASE room' # room
    <3>1. made \in Rooms /\ \A p \in Rooms \ {made} : room'[p] = room[p]
      BY <2>1, <2>3
    <3>2. spoilt' = spoilt \cup {made}
      BY <2>1, <2>3, <3>1
    <3> QED
      BY <1>1, <3>1, <3>2, RingSpoils
  <2> QED
    BY <2>2, <2>3
<1>3. CASE MakeRoom \/ cleanup
  BY <1>1, <1>3, RingStays DEF MakeRoom, cleanup
<1> QED
  BY <1>2, <1>3

\* As long as no two posts of a room overlap, the ring and its counter are a log:
\* each text that is counted is whole and joins the latest SLOTS - 1, and neither
\* a text half written, nor a client that dies over it, shows among those.
THEOREM RoomRefines == Spec => RoomIsLog
<1>1. Init => Log!Init
  <2> SUFFICES ASSUME Init PROVE Log!Init
    OBVIOUS
  <2>1. TypeOK
    BY InitInv DEF Inv
  <2>2. spoilt = {} /\ room = [r \in Rooms |-> FreshRoom] /\ FreshRoom.msg_count = 0
    BY DEF Init, FreshRoom
  <2>3. RecentOf(FreshRoom) = <<>>
    <3>1. Held(0) = 0
      BY SlotFacts DEF Held
    <3> QED
      BY <2>2, <3>1 DEF RecentOf, RecentIn
  <2>4. Lengths = [r \in Rooms |-> 0] /\ Shown = [r \in Rooms |-> <<>>]
    BY <2>1, <2>2, <2>3, TypedRecents DEF Lengths, Shown, RecentsAre
  <2> QED
    BY <2>2, <2>4 DEF Log!Init, Lengths, Shown
<1>2. Inv /\ Inv' /\ [Next]_vars => [Log!Next]_<<Lengths, Shown, spoilt>>
  <2> SUFFICES ASSUME Inv, Inv', [Next]_vars
               PROVE  [Log!Next]_<<Lengths, Shown, spoilt>>
    OBVIOUS
  <2>1. TypeOK /\ TypeOK'
    BY DEF Inv
  <2>2. LogStep
    <3>1. CASE UNCHANGED vars
      BY <2>1, <3>1, RingStays DEF vars
    <3> QED
      BY <2>1, <3>1, ClientLogs, ServerLogs DEF Next, ClientStep
  <2> QED
    BY <2>2 DEF LogStep, Log!Next
<1> QED
  BY <1>1, <1>2, Invariance, PTL DEF Spec, RoomIsLog, Log!Spec, Lengths, Shown
===============================================================================

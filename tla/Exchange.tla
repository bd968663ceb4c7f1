-------------------------------- MODULE Exchange --------------------------------
(***************************************************************************)
(* The exchanges of "Hi!" and "Hello!" between a server and a client: over *)
(* POSIX queues ("mq", 13-message queues/1-posix), a System V queue        *)
(* ("msg", 1-system_v), POSIX shared memory ("shm", 14-shared memory/      *)
(* 1-posix) and a System V segment ("ipc", 1-system_v).  Each program is a *)
(* script of system calls; what a call does is an action.  The objects     *)
(* outlive the programs, so a server that is killed leaves them to the     *)
(* next one.                                                               *)
(***************************************************************************)
EXTENDS Integers, FiniteSets, Functions, SequencesExt

CONSTANTS Runs,        \* bound: runs of the server, one after the other
          Visitors     \* the clients; each runs once

ConstantsOK == Runs \in Nat \ {0} /\ IsFiniteSet(Visitors) /\ Visitors \cap (0 .. Runs) = {}

Servers  == 1 .. Runs
Programs == Servers \cup Visitors
Ids      == 1 .. 2 * Runs
HI       == "Hi!"
HELLO    == "Hello!"
ANY      == "any"
Objects  == {"server_queue", "client_queue", "queue", "memory"}
-------------------------------------------------------------------------------
(***************************************************************************)
(* The programs.  memcpy into the memory is two steps, so that it may be   *)
(* seen half done; bytes of two texts do not mix.                          *)
(***************************************************************************)
Call(op, on)       == [op |-> op, on |-> on, text |-> ANY]
Say(op, on, text)  == [op |-> op, on |-> on, text |-> text]
Memcpy(text)       == <<Say("half", "memory", text), Say("write", "memory", text)>>

MqServer ==
  <<Call("make", "server_queue"), Say("put", "server_queue", HI),
    Call("make", "client_queue"), Say("get", "client_queue", ANY),
    Call("drop", "client_queue"), Call("drop", "server_queue")>>

MqClient ==
  <<Call("open", "server_queue"), Say("get", "server_queue", ANY),
    Call("open", "client_queue"), Say("put", "client_queue", HELLO)>>

AnyTypeServer ==    \* mutant: takes a message of any type, also its own
  <<Call("make", "queue"), Say("put", "queue", HI), Say("get", "queue", ANY), Call("drop", "queue")>>

MsgServer ==
  <<Call("make", "queue"), Say("put", "queue", HI), Say("get", "queue", HELLO), Call("drop", "queue")>>

MsgClient == <<Call("open", "queue"), Say("get", "queue", HI), Say("put", "queue", HELLO)>>

MemoryServer ==
  <<Call("size", "memory"), Call("attach", "memory")>> \o Memcpy(HI)
  \o <<Say("poll", "memory", HI), Call("detach", "memory"), Call("drop", "memory")>>

ShmServer == <<Call("make", "memory")>> \o MemoryServer

ShmClient ==
  <<Call("open", "memory"), Call("attach", "memory"), Call("look", "memory")>>
  \o Memcpy(HELLO) \o <<Call("detach", "memory")>>

IpcServer == <<Call("make", "memory")>> \o Tail(MemoryServer)
IpcClient == ShmClient

Kinds == {"mq", "msg", "shm", "ipc"}
Script(kind, server) ==
  CASE kind = "mq"  -> IF server THEN MqServer ELSE MqClient
    [] kind = "msg" -> IF server THEN MsgServer ELSE MsgClient
    [] kind = "shm" -> IF server THEN ShmServer ELSE ShmClient
    [] kind = "ipc" -> IF server THEN IpcServer ELSE IpcClient
-------------------------------------------------------------------------------
VARIABLES
  kind,     \* the pair of programs; never changes
  party,    \* where each program is in its script
  handle,   \* the object behind each name a program has opened
  named,    \* the object of each name, or 0
  box,      \* what each object holds
  removed,  \* queues and segments removed with IPC_RMID
  heard,    \* what each program prints
  calm      \* history: no program was killed
talkVars == <<kind, party, handle, named, box, removed, heard, calm>>

Nothing == [text |-> "", by |-> 0]

Init ==
  /\ kind \in Kinds
  /\ party = [p \in Programs |-> [at |-> "new", k |-> 1, attached |-> FALSE]]
  /\ handle = [p \in Programs |-> [o \in Objects |-> 0]]
  /\ named = [o \in Objects |-> 0] /\ box = [d \in Ids |-> <<>>]
  /\ removed = {} /\ heard = [p \in Programs |-> Nothing] /\ calm = TRUE

MyScript(p) == Script(kind, p \in Servers)
Op(p)       == MyScript(p)[party[p].k]
Obj(p)      == handle[p][Op(p).on]
Doing(p, op) == party[p].at = "run" /\ Op(p).op = op

After(p)    == [party[p] EXCEPT !.at = IF party[p].k = Len(MyScript(p)) THEN "done" ELSE @,
                                !.k = IF @ = Len(MyScript(p)) THEN @ ELSE @ + 1]
GoesOn(p)   == party' = [party EXCEPT ![p] = After(p)]
Fails(p)    == party' = [party EXCEPT ![p] = [@ EXCEPT !.at = "failed", !.attached = FALSE]]
-------------------------------------------------------------------------------
(***************************************************************************)
(* The calls.                                                              *)
(***************************************************************************)
\* A server starts when the one before it has ended, a client at any time.
Start(p) ==
  /\ party[p].at = "new"
  /\ \A s \in Servers : p \in Servers /\ s < p => party[s].at \notin {"new", "run"}
  /\ party' = [party EXCEPT ![p].at = "run"]
  /\ UNCHANGED <<kind, handle, named, box, removed, heard, calm>>

\* mq_open, msgget, shm_open and shmget that create: a leftover object is opened.
\* The memory of shm_open has no size yet, that of shmget has.
Make(p) ==
  LET o   == Op(p).on
      new == CHOOSE d \in Ids : \A q \in Programs : d \notin Range(handle[q])
      d   == IF named[o] = 0 THEN new ELSE named[o]
  IN  /\ Doing(p, "make") /\ GoesOn(p)
      /\ named' = [named EXCEPT ![o] = d]
      /\ handle' = [handle EXCEPT ![p][o] = d]
      /\ box' = IF kind = "ipc" /\ named[o] = 0 THEN [box EXCEPT ![d] = <<Nothing>>] ELSE box
      /\ UNCHANGED <<kind, removed, heard, calm>>

\* ftruncate, to the size the memory has or with zeros.
Size(p) ==
  /\ Doing(p, "size") /\ GoesOn(p)
  /\ box' = [box EXCEPT ![Obj(p)] = IF @ = <<>> THEN <<Nothing>> ELSE @]
  /\ UNCHANGED <<kind, handle, named, removed, heard, calm>>

\* The same calls without O_CREAT; without an object the client exits.
Open(p) ==
  /\ Doing(p, "open")
  /\ IF named[Op(p).on] = 0 THEN Fails(p) ELSE GoesOn(p)
  /\ handle' = [handle EXCEPT ![p][Op(p).on] = named[Op(p).on]]
  /\ UNCHANGED <<kind, named, box, removed, heard, calm>>

\* mmap and shmat; a removed segment nobody is attached to is there no more.
Attach(p) ==
  LET lost == Obj(p) \in removed /\ ~\E q \in Programs : party[q].attached /\ handle[q][Op(p).on] = Obj(p)
  IN  /\ Doing(p, "attach")
      /\ IF lost THEN Fails(p) ELSE party' = [party EXCEPT ![p] = [After(p) EXCEPT !.attached = TRUE]]
      /\ UNCHANGED <<kind, handle, named, box, removed, heard, calm>>

Detach(p) ==
  /\ Doing(p, "detach")
  /\ party' = [party EXCEPT ![p] = [After(p) EXCEPT !.attached = FALSE]]
  /\ UNCHANGED <<kind, handle, named, box, removed, heard, calm>>

\* mq_send and msgsnd.
Put(p) ==
  /\ Doing(p, "put")
  /\ IF Obj(p) \in removed
     THEN Fails(p) /\ UNCHANGED box
     ELSE GoesOn(p) /\ box' = [box EXCEPT ![Obj(p)] = Append(@, [text |-> Op(p).text, by |-> p])]
  /\ UNCHANGED <<kind, handle, named, removed, heard, calm>>

\* mq_receive and msgrcv wait for the first message of the type; a queue that is
\* removed ends the wait.
Get(p) ==
  LET Fitting == {k \in DOMAIN box[Obj(p)] : Op(p).text \in {ANY, box[Obj(p)][k].text}}
      first   == CHOOSE k \in Fitting : \A l \in Fitting : k <= l
  IN  /\ Doing(p, "get")
      /\ IF Obj(p) \in removed
         THEN Fails(p) /\ UNCHANGED <<box, heard>>
         ELSE /\ Fitting # {} /\ GoesOn(p)
              /\ heard' = [heard EXCEPT ![p] = box[Obj(p)][first]]
              /\ box' = [box EXCEPT ![Obj(p)] = RemoveAt(@, first)]
      /\ UNCHANGED <<kind, handle, named, removed, calm>>

\* The two halves of memcpy.
Copy(p) ==
  /\ Doing(p, "half") \/ Doing(p, "write")
  /\ GoesOn(p)
  /\ box' = [box EXCEPT ![Obj(p)] = <<[text |-> IF Op(p).op = "half" THEN "half" ELSE Op(p).text, by |-> p]>>]
  /\ UNCHANGED <<kind, handle, named, removed, heard, calm>>

InMemory(p) == box[Obj(p)][1]

\* The client prints what is in the memory, and dies if that has no size yet; the
\* server prints as soon as it finds there something else than its own text.
Look(p) ==
  /\ Doing(p, "look") \/ (Doing(p, "poll") /\ InMemory(p).text # Op(p).text)
  /\ IF box[Obj(p)] = <<>> THEN Fails(p) /\ UNCHANGED heard
                           ELSE GoesOn(p) /\ heard' = [heard EXCEPT ![p] = InMemory(p)]
  /\ UNCHANGED <<kind, handle, named, box, removed, calm>>

\* unlink takes the name away, IPC_RMID the queue itself and the name of a segment.
Drop(p) ==
  /\ Doing(p, "drop") /\ GoesOn(p)
  /\ named' = [named EXCEPT ![Op(p).on] = 0]
  /\ removed' = IF kind \in {"msg", "ipc"} THEN removed \cup {Obj(p)} ELSE removed
  /\ UNCHANGED <<kind, handle, box, heard, calm>>

\* A signal (bound: one program is killed); the objects stay.
Kill(p) ==
  /\ party[p].at = "run" /\ calm
  /\ party' = [party EXCEPT ![p] = [@ EXCEPT !.at = "killed", !.attached = FALSE]]
  /\ calm' = FALSE
  /\ UNCHANGED <<kind, handle, named, box, removed, heard>>

CallStep(p) == Make(p) \/ Size(p) \/ Open(p) \/ Attach(p) \/ Detach(p) \/ Put(p) \/ Get(p) \/ Copy(p) \/ Look(p) \/ Drop(p)

Next == \E p \in Programs : Start(p) \/ CallStep(p) \/ Kill(p)

\* Some program that runs and does not wait goes on; as none runs for ever, all do.
Fairness == WF_talkVars(\E p \in Programs : CallStep(p))
FairSpec == Init /\ [][Next]_talkVars /\ Fairness
-------------------------------------------------------------------------------
(***************************************************************************)
(* Properties.                                                             *)
(***************************************************************************)
Texts == {"", "half", HI, HELLO}

\* The type invariant; a running program has opened whatever it works on.
TypeOK ==
  /\ kind \in Kinds /\ calm \in BOOLEAN /\ removed \subseteq Ids
  /\ \A o \in Objects : named[o] \in Ids \cup {0}
  /\ \A d \in Ids : \A k \in DOMAIN box[d] : box[d][k].text \in Texts /\ box[d][k].by \in Programs \cup {0}
  /\ \A p \in Programs :
       /\ party[p].at \in {"new", "run", "done", "failed", "killed"} /\ party[p].k \in DOMAIN MyScript(p)
       /\ party[p].at = "run" /\ Op(p).op \notin {"make", "open"} => Obj(p) \in Ids
       /\ heard[p].text \in Texts

\* Over a queue each side prints the text meant for it, and, unless a program was
\* killed and left its messages behind, that of the very program that got its own.
\* In the memory a server always finds the text of a client, though perhaps half.
HeardRight ==
  \A p \in Programs : heard[p] # Nothing =>
    LET from == heard[p].by IN
    IF kind \in {"mq", "msg"}
    THEN /\ heard[p].text = IF p \in Servers THEN HELLO ELSE HI
         /\ p \in Servers /\ calm => heard[from].by = p
    ELSE p \in Servers => from \in Visitors

\* A server that a client has heard, and answered, comes to its end: the answer is
\* neither overwritten nor taken by another (server.c 42 and 31, 31-33 and 25-27).
Answered ==
  \A s \in Servers : \A c \in Visitors :
    party[c].at = "done" /\ heard[c].text = HI /\ heard[c].by = s => party[s].at # "run"
ServerAnswered == []<>Answered
===============================================================================

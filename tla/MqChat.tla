-------------------------------- MODULE MqChat --------------------------------
(***************************************************************************)
(* The chat of "13-message queues/2": one server process and the client    *)
(* processes, which meet on the POSIX queue /login and then talk over a    *)
(* pair of queues per user, /client<id>_ctos (cts) and /client<id>_stoc    *)
(* (stc).                                                                  *)
(*                                                                         *)
(* A step is one system call another process can interleave with, together *)
(* with the local work around it.  The server's loops over snd_q are one   *)
(* step: each queue they fill is read by one client only, and that client  *)
(* reaches the other clients through the server alone.                     *)
(***************************************************************************)
EXTENDS Integers, FiniteSets, PosixQueue

CONSTANTS Clients,    \* client processes; a client is also the name typed in it
          LoginMax,   \* LOGIN_MAX, mq_maxmsg of /login
          UserMax,    \* USER_MAX, mq_maxmsg of a user's queues
          MaxTyped    \* bound of the model: lines typed, by all clients

ASSUME ClientsAssumption == IsFiniteSet(Clients) /\ Clients \cap Int = {}
ASSUME LoginMaxAssumption == LoginMax \in Nat \ {0}
ASSUME UserMaxAssumption == UserMax \in Nat \ {0}
ASSUME MaxTypedAssumption == MaxTyped \in Nat

USER_PRIORITY       == 1
SERVER_PRIORYTY     == 2
MSG_PRIORYTY        == 3
USRNAME_PRIORITY    == 4
UPDUSER_PRIORITY    == 5
DISCONNECT_PRIORITY == 7

Gone  == -1                 \* users[i].id of a user that disconnected
NoMsg == [prio |-> 0]       \* a zeroed buffer

\* A user is called after its number until its client sends a name.
Logins == Clients \cup Nat
Texts  == [by : Clients, n : Nat]

Request        == [prio |-> USER_PRIORITY]
Answer(i)      == [prio |-> SERVER_PRIORYTY, id |-> i]
Name(l)        == [prio |-> USRNAME_PRIORITY, login |-> l]
Typed(t)       == [prio |-> USER_PRIORITY, text |-> t]
Line(l, t)     == [prio |-> MSG_PRIORYTY, login |-> l, text |-> t]
UsersList      == [prio |-> UPDUSER_PRIORITY]   \* the logins it prints are left out
Bye            == [prio |-> DISCONNECT_PRIORITY]

LoginMsgs == {Request} \cup [prio : {SERVER_PRIORYTY}, id : Nat]
CtsMsgs   == [prio : {USRNAME_PRIORITY}, login : Clients]
               \cup [prio : {USER_PRIORITY}, text : Texts] \cup {Bye}
StcMsgs   == [prio : {MSG_PRIORYTY}, login : Logins, text : Texts]
               \cup {UsersList, Bye}
-------------------------------------------------------------------------------
VARIABLES
  spc,           \* where the server is in its loop
  index,         \* the user the server looks at next
  users,         \* users[i] = [id, login]
  active_users,
  users_list,    \* the text of logins sent to the clients
  hand           \* the answer the server took from /login itself
serverVars == <<spc, index, users, active_users, users_list, hand>>

VARIABLES
  login_q,       \* the queue /login
  cts, stc,      \* the queues of user i
  linked,        \* the users whose queues have a name mq_open finds
  notif          \* notif[c]: c is registered (mq_notify) on its stc queue
queueVars == <<login_q, cts, stc, linked, notif>>

VARIABLES
  cpc,           \* where client c is
  cid,           \* user.id, 0 before the answer
  typed,         \* the lines typed so far, by all clients
  rcv_buf,       \* user.rcv_buf: the message the main thread works on
  hpc,           \* where c's thread handle_msg is, "none" when there is none
  buf,           \* q_handler.buf: the last message handle_msg received
  screen         \* the lines printed in main_wnd, by handle_msg or by main
clientVars == <<cpc, cid, typed, rcv_buf, hpc, buf, screen>>

\* History, read by properties only.
VARIABLES
  said,          \* the lines the server sent out, and to which users
  missed,        \* <<i, m>>: message m for user i was dropped
  raced,         \* raced[c]: a message came before handle_msg registered again
  lost           \* logins that died with a dropped or held /login message
historyVars == <<said, missed, raced, lost>>

vars == <<serverVars, queueVars, clientVars, historyVars>>

ServerPcs  == {"off", "login", "reans", "answer", "list", "scan", "left", "killed"}
ClientPcs  == {"form", "request", "await", "putback", "openrcv", "opensnd",
               "notify", "name", "drain", "show", "chat", "exited"}
HandlerPcs == {"none", "recv", "show", "arm"}

LoginExists == spc \notin {"off", "left", "killed"}
Active(us)  == {i \in DOMAIN us : us[i].id # Gone}

Init ==
  /\ spc = "off" /\ index = 1 /\ users = <<>> /\ active_users = 0
  /\ users_list = <<>> /\ hand = 0
  /\ login_q = <<>> /\ cts = <<>> /\ stc = <<>> /\ linked = {}
  /\ notif = [c \in Clients |-> FALSE]
  /\ cpc = [c \in Clients |-> "form"]
  /\ cid = [c \in Clients |-> 0]
  /\ typed = 0
  /\ rcv_buf = [c \in Clients |-> NoMsg]
  /\ hpc = [c \in Clients |-> "none"]
  /\ buf = [c \in Clients |-> NoMsg]
  /\ screen = [c \in Clients |-> <<>>]
  /\ said = <<>> /\ missed = {} /\ raced = [c \in Clients |-> FALSE] /\ lost = 0
-------------------------------------------------------------------------------
(***************************************************************************)
(* The server.                                                             *)
(***************************************************************************)

\* The text of users_list: the logins of the active users by their number,
\* which is the order of the text.
ListOf(us) == [i \in Active(us) |-> us[i].login]

RelistEarly == users_list' = ListOf(users)   \* mutant: before the change is made

\* users_list is zeroed and written anew.
Relist == users_list' = ListOf(users')

\* mq_send of m to every user of the set to.  A message that reaches an empty
\* queue uses up the notification its reader registered and starts handle_msg.
Broadcast(m, to) ==
  LET empty(i) == stc[i] = <<>>
      wakes(c) == notif[c] /\ cid[c] \in to /\ empty(cid[c])
      races(c) == hpc[c] = "arm" /\ cid[c] \in to /\ empty(cid[c])
  IN  /\ stc' = [i \in DOMAIN stc |->
                   IF i \in to THEN Offer(stc[i], UserMax, m) ELSE stc[i]]
      /\ missed' = missed \cup {<<i, m>> : i \in {j \in to : ~HasRoom(stc[j], UserMax)}}
      /\ notif' = [c \in Clients |-> notif[c] /\ ~wakes(c)]
      /\ hpc' = [c \in Clients |-> IF wakes(c) THEN "recv" ELSE hpc[c]]
      /\ raced' = [c \in Clients |-> raced[c] \/ races(c)]

ServerStart ==
  /\ spc = "off"
  /\ spc' = "login"
  /\ UNCHANGED <<index, users, active_users, users_list, hand>>
  /\ UNCHANGED <<queueVars, clientVars, historyVars>>

ScanFromSecond == spc' = "scan" /\ index' = 2   \* mutant: off by one

StartScan == spc' = "scan" /\ index' = 1

PollLogin ==
  /\ spc = "login" /\ login_q = <<>>
  /\ StartScan
  /\ UNCHANGED <<users, active_users, users_list, hand>>
  /\ UNCHANGED <<queueVars, clientVars, historyVars>>

\* The server polls the queue it answers on, and may take its own answer back.
TakeOwnAnswer ==
  /\ spc = "login" /\ login_q # <<>>
  /\ Received(login_q).prio = SERVER_PRIORYTY
  /\ hand' = Received(login_q).id
  /\ login_q' = Remaining(login_q)
  /\ spc' = "reans"
  /\ UNCHANGED <<index, users, active_users, users_list>>
  /\ UNCHANGED <<cts, stc, linked, notif, clientVars, historyVars>>

\* mutant: the answer is not sent
KeepAnswer(i) == UNCHANGED <<login_q, lost>>

\* mutant: the answer is sent once more
AnswerTwice(i) ==
  /\ login_q' = Offer(Offer(login_q, LoginMax, Answer(i)), LoginMax, Answer(i))
  /\ lost' = IF HasRoom(login_q, LoginMax) THEN lost ELSE lost + 1

\* An answer on /login is sent without waiting and without a look at the result.
PostAnswer(i) ==
  /\ login_q' = Offer(login_q, LoginMax, Answer(i))
  /\ lost' = IF HasRoom(login_q, LoginMax) THEN lost ELSE lost + 1

ReturnAnswer ==
  /\ spc = "reans"
  /\ PostAnswer(hand)
  /\ hand' = 0
  /\ StartScan
  /\ UNCHANGED <<users, active_users, users_list>>
  /\ UNCHANGED <<cts, stc, linked, notif, clientVars, said, missed, raced>>

IdTooLarge == Len(users) + 2     \* mutant: counts the new user twice

NewId == Len(users) + 1

Register ==
  /\ spc = "login" /\ login_q # <<>>
  /\ Received(login_q).prio = USER_PRIORITY
  /\ login_q' = Remaining(login_q)
  /\ users' = Append(users, [id |-> NewId, login |-> NewId])
  /\ active_users' = active_users + 1
  /\ cts' = Append(cts, <<>>)
  /\ stc' = Append(stc, <<>>)
  /\ linked' = linked \cup {NewId}
  /\ spc' = "answer"
  /\ UNCHANGED <<index, users_list, hand, notif, clientVars, historyVars>>

SendAnswer ==
  /\ spc = "answer"
  /\ PostAnswer(users[Len(users)].id)
  /\ spc' = "list"
  /\ UNCHANGED <<index, users, active_users, users_list, hand>>
  /\ UNCHANGED <<cts, stc, linked, notif, clientVars, said, missed, raced>>

SendList ==
  /\ spc = "list"
  /\ users_list' = [i \in DOMAIN users_list \cup {Len(users)} |->
                     IF i = Len(users) THEN users[i].login ELSE users_list[i]]
  /\ Broadcast(UsersList, Active(users))
  /\ StartScan
  /\ UNCHANGED <<users, active_users, hand, login_q, cts, linked>>
  /\ UNCHANGED <<cpc, cid, typed, rcv_buf, buf, screen, said, lost>>

EndScan ==
  /\ spc = "scan" /\ index > Len(users)
  /\ spc' = "login"
  /\ UNCHANGED <<index, users, active_users, users_list, hand>>
  /\ UNCHANGED <<queueVars, clientVars, historyVars>>

SkipUser ==
  /\ spc = "scan" /\ index \in DOMAIN users
  /\ users[index].id = Gone \/ cts[index] = <<>>
  /\ index' = index + 1
  /\ UNCHANGED <<spc, users, active_users, users_list, hand>>
  /\ UNCHANGED <<queueVars, clientVars, historyVars>>

\* The server has a message of priority p from users[index].
Hears(p) ==
  /\ spc = "scan" /\ index \in DOMAIN users
  /\ users[index].id # Gone /\ cts[index] # <<>>
  /\ Received(cts[index]).prio = p

TakeCts == cts' = [cts EXCEPT ![index] = Remaining(@)]

HandleChat ==
  /\ Hears(USER_PRIORITY)
  /\ TakeCts
  /\ LET text == Received(cts[index]).text
         login == users[index].login
     IN  /\ said' = Append(said, [line |-> Line(login, text), to |-> Active(users)])
         /\ Broadcast(Line(login, text), Active(users))
  /\ index' = index + 1
  /\ UNCHANGED <<spc, users, active_users, users_list, hand, login_q, linked>>
  /\ UNCHANGED <<cpc, cid, typed, rcv_buf, buf, screen, lost>>

HandleName ==
  /\ Hears(USRNAME_PRIORITY)
  /\ TakeCts
  /\ users' = [users EXCEPT ![index].login = Received(cts[index]).login]
  /\ Relist
  /\ Broadcast(UsersList, Active(users))
  /\ index' = index + 1
  /\ UNCHANGED <<spc, active_users, hand, login_q, linked>>
  /\ UNCHANGED <<cpc, cid, typed, rcv_buf, buf, screen, said, lost>>

UnlinkNext(i) == linked' = linked \ {i + 1}   \* mutant: takes the index for the id
Unlink(i)     == linked' = linked \ {i}

\* mutant: off by one
OneUserLeft == active_users' <= 1

\* active_users <= 0 ends the server.
NoUserLeft == active_users' <= 0

\* The user's queues are closed and unlinked: what is left in cts is never read.
ForgetUser ==
  /\ Hears(DISCONNECT_PRIORITY)
  /\ cts' = [cts EXCEPT ![index] = <<>>]
  /\ Unlink(index)
  /\ users' = [users EXCEPT ![index].id = Gone]
  /\ active_users' = active_users - 1

HandleBye ==
  /\ ForgetUser
  /\ ~NoUserLeft
  /\ Relist
  /\ Broadcast(UsersList, Active(users'))
  /\ index' = index + 1
  /\ UNCHANGED <<spc, hand, login_q>>
  /\ UNCHANGED <<cpc, cid, typed, rcv_buf, buf, screen, said, lost>>

\* exit(0) with the last user: shutdown_server finds nobody to say good-bye to.
HandleLastBye ==
  /\ ForgetUser
  /\ NoUserLeft
  /\ spc' = "left"
  /\ UNCHANGED <<index, users_list, hand, login_q, stc, notif, clientVars, historyVars>>

\* SIGINT, or exit(1) after a failed call: shutdown_server runs from atexit.
\* An answer in the server's hand dies with it.
ServerExit ==
  /\ LoginExists
  /\ spc' = "killed"
  /\ lost' = IF spc \in {"reans", "answer"} THEN lost + 1 ELSE lost
  /\ hand' = 0
  /\ IF active_users # 0
       THEN /\ Broadcast(Bye, Active(users))
            /\ linked' = linked \ Active(users)
            /\ cts' = [i \in DOMAIN cts |-> <<>>]
       ELSE UNCHANGED <<cts, stc, missed, notif, hpc, raced, linked>>
  /\ UNCHANGED <<index, users, active_users, users_list, login_q>>
  /\ UNCHANGED <<cpc, cid, typed, rcv_buf, buf, screen, said>>

ServerStep ==
  \/ PollLogin \/ TakeOwnAnswer \/ ReturnAnswer \/ Register \/ SendAnswer \/ SendList
  \/ EndScan \/ SkipUser \/ HandleChat \/ HandleName \/ HandleBye \/ HandleLastBye
-------------------------------------------------------------------------------
(***************************************************************************)
(* A client: its main thread.                                              *)
(***************************************************************************)
Goto(c, pc) == cpc' = [cpc EXCEPT ![c] = pc]

\* mq_send on snd_q.  Once the server closed the queue nobody will read it.
SentCts(c, m) ==
  IF cid[c] \in linked THEN [cts EXCEPT ![cid[c]] = Offer(@, UserMax, m)] ELSE cts

\* exit(): shutdown_client sends a good-bye once snd_q is open; the process,
\* its thread and its registration are gone.
Leave(c) ==
  /\ Goto(c, "exited")
  /\ cts' = IF cpc[c] \in {"notify", "name", "drain", "show", "chat"}
              THEN SentCts(c, Bye) ELSE cts
  /\ hpc' = [hpc EXCEPT ![c] = "none"]
  /\ notif' = [notif EXCEPT ![c] = FALSE]
  /\ rcv_buf' = [rcv_buf EXCEPT ![c] = NoMsg]
  /\ buf' = [buf EXCEPT ![c] = NoMsg]
  /\ screen' = [screen EXCEPT ![c] = <<>>]

\* The client spins on mq_open until the server has created /login.
OpenLogin(c) ==
  /\ cpc[c] = "form" /\ LoginExists
  /\ Goto(c, "request")
  /\ UNCHANGED <<serverVars, queueVars, historyVars>>
  /\ UNCHANGED <<cid, typed, rcv_buf, hpc, buf, screen>>

\* A blocking mq_send of a request to /login.
PostRequest(c) ==
  /\ HasRoom(login_q, LoginMax)
  /\ login_q' = Append(login_q, Request)
  /\ Goto(c, "await")
  /\ UNCHANGED <<serverVars, cts, stc, linked, notif, historyVars>>
  /\ UNCHANGED <<cid, typed, rcv_buf, hpc, buf, screen>>

SendRequest(c) == cpc[c] = "request" /\ PostRequest(c)
PutBack(c)     == cpc[c] = "putback" /\ PostRequest(c)

\* The blocking mq_receive on /login returns a request: ours or another's.
TakeRequest(c) ==
  /\ cpc[c] = "await" /\ login_q # <<>>
  /\ Received(login_q).prio = USER_PRIORITY
  /\ login_q' = Remaining(login_q)
  /\ Goto(c, "putback")
  /\ UNCHANGED <<serverVars, cts, stc, linked, notif, historyVars>>
  /\ UNCHANGED <<cid, typed, rcv_buf, hpc, buf, screen>>

TakeAnswer(c) ==
  /\ cpc[c] = "await" /\ login_q # <<>>
  /\ Received(login_q).prio = SERVER_PRIORYTY
  /\ cid' = [cid EXCEPT ![c] = Received(login_q).id]
  /\ login_q' = Remaining(login_q)
  /\ Goto(c, "openrcv")
  /\ UNCHANGED <<serverVars, cts, stc, linked, notif, historyVars>>
  /\ UNCHANGED <<typed, rcv_buf, hpc, buf, screen>>

OpenQueue(c, next) ==
  /\ IF cid[c] \in linked
       THEN /\ Goto(c, next)
            /\ UNCHANGED <<cts, notif, rcv_buf, hpc, buf, screen>>
       ELSE Leave(c)
  /\ UNCHANGED <<serverVars, login_q, stc, linked, historyVars, cid, typed>>

OpenRcv(c) == cpc[c] = "openrcv" /\ OpenQueue(c, "opensnd")
OpenSnd(c) == cpc[c] = "opensnd" /\ OpenQueue(c, "notify")

Notify(c) ==
  /\ cpc[c] = "notify"
  /\ notif' = [notif EXCEPT ![c] = TRUE]
  /\ Goto(c, "name")
  /\ UNCHANGED <<serverVars, login_q, cts, stc, linked, historyVars>>
  /\ UNCHANGED <<cid, typed, rcv_buf, hpc, buf, screen>>

\* mutant: the name is not sent
SkipName(c) ==
  /\ cpc[c] = "name" /\ Goto(c, "drain")
  /\ UNCHANGED <<serverVars, queueVars, historyVars>>
  /\ UNCHANGED <<cid, typed, rcv_buf, hpc, buf, screen>>

SendName(c) ==
  /\ cpc[c] = "name"
  /\ cts' = SentCts(c, Name(c))
  /\ Goto(c, "drain")
  /\ UNCHANGED <<serverVars, login_q, stc, linked, notif, historyVars>>
  /\ UNCHANGED <<cid, typed, rcv_buf, hpc, buf, screen>>

FlushStc(c) == stc' = [stc EXCEPT ![cid[c]] = <<>>]   \* mutant: drops the rest

TakeStc(c) == stc' = [stc EXCEPT ![cid[c]] = Remaining(@)]

MainReceive(c) ==
  /\ cpc[c] = "drain" /\ stc[cid[c]] # <<>>
  /\ Received(stc[cid[c]]) # Bye
  /\ TakeStc(c)
  /\ rcv_buf' = [rcv_buf EXCEPT ![c] = Received(stc[cid[c]])]
  /\ Goto(c, "show")
  /\ UNCHANGED <<serverVars, login_q, cts, linked, notif, historyVars>>
  /\ UNCHANGED <<cid, typed, hpc, buf, screen>>

MainReceiveBye(c) ==
  /\ cpc[c] = "drain" /\ stc[cid[c]] # <<>>
  /\ Received(stc[cid[c]]) = Bye
  /\ TakeStc(c)
  /\ Leave(c)
  /\ UNCHANGED <<serverVars, login_q, linked, historyVars, cid, typed>>

\* On a chat line main prints q_handler.buf, not the line it received, which
\* is lost; a list it prints.
MainShow(c) ==
  /\ cpc[c] = "show"
  /\ IF rcv_buf[c].prio = MSG_PRIORYTY
       THEN /\ screen' = [screen EXCEPT ![c] = Append(@, [by |-> "main", msg |-> buf[c]])]
            /\ missed' = missed \cup {<<cid[c], rcv_buf[c]>>}
       ELSE UNCHANGED <<screen, missed>>
  /\ rcv_buf' = [rcv_buf EXCEPT ![c] = NoMsg]
  /\ Goto(c, "drain")
  /\ UNCHANGED <<serverVars, queueVars, said, raced, lost, cid, typed, hpc, buf>>

MainDone(c) ==
  /\ cpc[c] = "drain" /\ stc[cid[c]] = <<>>
  /\ Goto(c, "chat")
  /\ UNCHANGED <<serverVars, queueVars, historyVars>>
  /\ UNCHANGED <<cid, typed, rcv_buf, hpc, buf, screen>>

\* Enter: the line is sent without waiting, and forgotten when cts is full.
Speak(c) ==
  /\ cpc[c] = "chat" /\ typed < MaxTyped
  /\ typed' = typed + 1
  /\ cts' = SentCts(c, Typed([by |-> c, n |-> typed']))
  /\ UNCHANGED <<serverVars, login_q, stc, linked, notif, historyVars>>
  /\ UNCHANGED <<cpc, cid, rcv_buf, hpc, buf, screen>>

\* SIGINT anywhere, F3 or a line of more than 80 characters in the chat, or
\* exit(1) after a failed call.  A request held for another client is lost.
Quit(c) ==
  /\ cpc[c] # "exited"
  /\ Leave(c)
  /\ lost' = IF cpc[c] = "putback" THEN lost + 1 ELSE lost
  /\ UNCHANGED <<serverVars, login_q, stc, linked, cid, typed, said, missed, raced>>

MainStep(c) ==
  \/ OpenLogin(c) \/ SendRequest(c) \/ PutBack(c) \/ TakeRequest(c) \/ TakeAnswer(c)
  \/ OpenRcv(c) \/ OpenSnd(c) \/ Notify(c) \/ SendName(c)
  \/ MainReceive(c) \/ MainReceiveBye(c) \/ MainShow(c) \/ MainDone(c)
-------------------------------------------------------------------------------
(***************************************************************************)
(* A client: the thread handle_msg the notification starts.                *)
(***************************************************************************)
HandlerReceive(c) ==
  /\ hpc[c] = "recv" /\ stc[cid[c]] # <<>>
  /\ Received(stc[cid[c]]) # Bye
  /\ TakeStc(c)
  /\ buf' = [buf EXCEPT ![c] = Received(stc[cid[c]])]
  /\ hpc' = [hpc EXCEPT ![c] = "show"]
  /\ UNCHANGED <<serverVars, login_q, cts, linked, notif, historyVars>>
  /\ UNCHANGED <<cpc, cid, typed, rcv_buf, screen>>

\* mutant: the good-bye is taken for one more message to skip
IgnoreBye(c) ==
  /\ hpc[c] = "recv" /\ stc[cid[c]] # <<>>
  /\ Received(stc[cid[c]]) = Bye
  /\ TakeStc(c)
  /\ UNCHANGED <<serverVars, login_q, cts, linked, notif, historyVars, clientVars>>

HandlerReceiveBye(c) ==
  /\ hpc[c] = "recv" /\ stc[cid[c]] # <<>>
  /\ Received(stc[cid[c]]) = Bye
  /\ TakeStc(c)
  /\ Leave(c)
  /\ UNCHANGED <<serverVars, login_q, linked, historyVars, cid, typed>>

HandlerShow(c) ==
  /\ hpc[c] = "show"
  /\ IF buf[c].prio = MSG_PRIORYTY
       THEN screen' = [screen EXCEPT ![c] = Append(@, [by |-> "handler", msg |-> buf[c]])]
       ELSE UNCHANGED screen
  /\ hpc' = [hpc EXCEPT ![c] = "recv"]
  /\ UNCHANGED <<serverVars, queueVars, historyVars, cpc, cid, typed, rcv_buf, buf>>

\* mutant: prints the buffer once more when the queue is empty
PrintAgain(c) ==
  /\ hpc[c] = "recv" /\ stc[cid[c]] = <<>>
  /\ hpc' = [hpc EXCEPT ![c] = "arm"]
  /\ screen' = [screen EXCEPT ![c] = Append(@, [by |-> "handler", msg |-> buf[c]])]
  /\ UNCHANGED <<serverVars, queueVars, historyVars, cpc, cid, typed, rcv_buf, buf>>

\* mutant: ends without a new mq_notify
EndUnarmed(c) ==
  /\ hpc[c] = "recv" /\ stc[cid[c]] = <<>>
  /\ hpc' = [hpc EXCEPT ![c] = "none"]
  /\ UNCHANGED <<serverVars, queueVars, historyVars>>
  /\ UNCHANGED <<cpc, cid, typed, rcv_buf, buf, screen>>

HandlerDone(c) ==
  /\ hpc[c] = "recv" /\ stc[cid[c]] = <<>>
  /\ hpc' = [hpc EXCEPT ![c] = "arm"]
  /\ UNCHANGED <<serverVars, queueVars, historyVars>>
  /\ UNCHANGED <<cpc, cid, typed, rcv_buf, buf, screen>>

\* The queue may have filled since HandlerDone: then nothing wakes c again.
HandlerArm(c) ==
  /\ hpc[c] = "arm"
  /\ notif' = [notif EXCEPT ![c] = TRUE]
  /\ hpc' = [hpc EXCEPT ![c] = "none"]
  /\ UNCHANGED <<serverVars, login_q, cts, stc, linked, historyVars>>
  /\ UNCHANGED <<cpc, cid, typed, rcv_buf, buf, screen>>

HandlerStep(c) ==
  \/ HandlerReceive(c) \/ HandlerReceiveBye(c) \/ HandlerShow(c)
  \/ HandlerDone(c) \/ HandlerArm(c)
-------------------------------------------------------------------------------
Next ==
  \/ ServerStart \/ ServerStep \/ ServerExit
  \/ \E c \in Clients : MainStep(c) \/ HandlerStep(c) \/ Speak(c) \/ Quit(c)

Spec == Init /\ [][Next]_vars

\* The server never blocks, so it runs on; so does a thread handle_msg, and a
\* client that drains its queue.  Nobody has to type, to log in or to quit.
Fairness ==
  /\ WF_vars(ServerStep)
  /\ \A c \in Clients : WF_vars(HandlerStep(c))

FairSpec == Spec /\ Fairness
-------------------------------------------------------------------------------
(***************************************************************************)
(* Properties.                                                             *)
(***************************************************************************)
ServerTypeOK ==
  /\ spc \in ServerPcs /\ index \in Nat \ {0} /\ active_users \in Int
  /\ users \in Seq([id : {Gone} \cup Nat, login : Logins])
  /\ \A i \in DOMAIN users_list : i \in DOMAIN users /\ users_list[i] \in Logins
  /\ hand \in Nat

QueuesTypeOK ==
  /\ login_q \in Seq(LoginMsgs)
  /\ cts \in Seq(Seq(CtsMsgs)) /\ Len(cts) = Len(users)
  /\ stc \in Seq(Seq(StcMsgs)) /\ Len(stc) = Len(users)
  /\ linked \subseteq DOMAIN users
  /\ notif \in [Clients -> BOOLEAN]

ClientsTypeOK ==
  /\ cpc \in [Clients -> ClientPcs] /\ hpc \in [Clients -> HandlerPcs]
  /\ cid \in [Clients -> Nat] /\ typed \in Nat
  /\ rcv_buf \in [Clients -> StcMsgs \cup {NoMsg}]
  /\ buf \in [Clients -> StcMsgs \cup {NoMsg}]

HistoryTypeOK ==
  /\ missed \subseteq Nat \X StcMsgs
  /\ raced \in [Clients -> BOOLEAN]
  /\ lost \in Nat

\* Every variable has its type: the queues hold messages their readers know,
\* and there is one pair of queues per user ever registered.
TypeOK == ServerTypeOK /\ QueuesTypeOK /\ ClientsTypeOK /\ HistoryTypeOK

Answers(q) == {k \in DOMAIN q : q[k].prio = SERVER_PRIORYTY}

\* No two answers on q carry the same number.
Distinct(q) == \A j, k \in Answers(q) : q[j].id = q[k].id => j = k

\* A user number has one owner, ever: two clients never share one, and while an
\* answer with it is on /login, or back in the server's hand, no client has it
\* and no second answer carries it (server.c takes its own answers off /login
\* and puts them back; every client reads and rewrites the same queue).
OneOwner ==
  /\ \A c, d \in Clients : cid[c] # 0 /\ cid[c] = cid[d] => c = d
  /\ Distinct(login_q)
  /\ \A k \in Answers(login_q) : login_q[k].id # hand
  /\ \A c \in Clients : cid[c] # 0 =>
       cid[c] # hand /\ \A k \in Answers(login_q) : login_q[k].id # cid[c]

Unnumbered == {"form", "request", "await", "putback"}
Numbered   == {"openrcv", "opensnd", "notify", "name", "drain", "show", "chat"}

\* What the proof of OneOwner adds to it: numbers come from users, and the one
\* the server is about to send is nowhere yet.
NumbersKnown ==
  /\ \A k \in Answers(login_q) : login_q[k].id \in DOMAIN users
  /\ hand \in DOMAIN users \cup {0}
  /\ \A c \in Clients :
       /\ cid[c] \in DOMAIN users \cup {0}
       /\ cpc[c] \in Unnumbered => cid[c] = 0
       /\ cpc[c] \in Numbered => cid[c] # 0
       /\ hpc[c] # "none" \/ notif[c] => cid[c] # 0
  /\ spc = "reans" => hand # 0
  /\ spc \in {"answer", "list"} => users # <<>>
  /\ spc = "answer" =>
       /\ users[Len(users)].id = Len(users)
       /\ hand # Len(users)
       /\ \A c \in Clients : cid[c] # Len(users)
       /\ \A k \in Answers(login_q) : login_q[k].id # Len(users)

\* A client that got its number finds both of its queues as long as the server
\* runs: the answer goes out after the queues were created, and nobody but the
\* client can have them unlinked.
QueuesReady ==
  LoginExists =>
    \A c \in Clients : cpc[c] \in {"openrcv", "opensnd"} => cid[c] \in linked

\* Between two messages users_list is the list of the logins of the users still
\* connected, however the appends of new users and the rebuilds after a new
\* name and a disconnect follow one another.
ListAgrees == spc \in {"login", "reans", "scan"} => users_list = ListOf(users)

\* When the server leaves because the last user disconnected, no client that
\* got a number is still running.
LastOneOut == spc = "left" => \A c \in Clients : cid[c] # 0 => cpc[c] = "exited"

\* Whoever got a number is served until it leaves: its queues are there, and so is
\* the server, unless that was interrupted (server.c 129, 204).
ServedToTheEnd == QueuesReady /\ LastOneOut

\* Nobody is heard under the default login: the name a client sends when it
\* enters the chat reaches the server before its first line.
NamedBeforeHeard == \A k \in DOMAIN said : said[k].line.login = said[k].line.text.by

\* The entries of c's screen that its thread printed, and where said has a line.
Printed(c) == {k \in DOMAIN screen[c] : screen[c][k].by = "handler"}
PlaceOf(m) == CHOOSE k \in DOMAIN said : said[k].line = m

\* handle_msg prints lines the server sent out, in the order it sent them,
\* though main reads the same queue.
InOrder ==
  \A c \in Clients :
    /\ \A k \in Printed(c) : \E j \in DOMAIN said : said[j].line = screen[c][k].msg
    /\ \A j, k \in Printed(c) :
         j < k => PlaceOf(screen[c][j].msg) < PlaceOf(screen[c][k].msg)

\* A line sent out to a running client is on its way, in a buffer or printed,
\* unless its queue was full or main took it while it drained the queue.
NoSilentLoss ==
  \A c \in Clients, k \in DOMAIN said :
    cpc[c] # "exited" /\ cid[c] \in said[k].to =>
      LET m == said[k].line
      IN  \/ \E j \in DOMAIN stc[cid[c]] : stc[cid[c]][j] = m
          \/ hpc[c] = "show" /\ buf[c] = m
          \/ rcv_buf[c] = m
          \/ \E j \in DOMAIN screen[c] : screen[c][j] = [by |-> "handler", msg |-> m]
          \/ <<cid[c], m>> \in missed

\* A client in the chat whose thread is not running has an empty queue, unless
\* a message came between the thread's last receive and its mq_notify.
DeafOnlyByRace ==
  \A c \in Clients :
    cpc[c] = "chat" /\ hpc[c] = "none" /\ stc[cid[c]] # <<>> => raced[c]

Waiting == {c \in Clients : cpc[c] \in {"await", "putback"}}
Logging == Len(login_q) + Cardinality({c \in Clients : cpc[c] = "putback"})
             + (IF spc \in {"reans", "answer"} THEN 1 ELSE 0)

\* Every client that waits for a number has a request or an answer on /login,
\* or in the hand of a process: logins are lost only when an answer is dropped
\* on a full /login or a process dies with a message it took.
NoLoginLost == Cardinality(Waiting) <= Logging + lost

UserIds == 1 .. Cardinality(Clients)

\* A good-bye that reached its queue is heard: the server forgets the user.
ByeHeard ==
  \A i \in UserIds :
    (i \in DOMAIN cts /\ Contains(cts[i], Bye)) ~> (~LoginExists \/ i \notin Active(users))

\* A typed line that reached its queue is sent out, unless its author leaves
\* first: the good-bye overtakes it.
LineSaid ==
  \A i \in UserIds, c \in Clients :
    (i \in DOMAIN cts /\ \E k \in DOMAIN cts[i] : cts[i][k] = Typed([by |-> c, n |-> 1]))
      ~> \/ ~LoginExists \/ cpc[c] = "exited"
         \/ \E k \in DOMAIN said : said[k].line.text = [by |-> c, n |-> 1]

\* When the server is interrupted the clients in the chat end, but for those
\* whose queue was full and those the race left without a notification.
ByeForAll ==
  \A c \in Clients :
    (spc = "killed" /\ cpc[c] = "chat")
      ~> (cpc[c] = "exited" \/ raced[c] \/ <<cid[c], Bye>> \in missed)
===============================================================================

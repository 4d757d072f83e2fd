-------------------------------- MODULE Chat --------------------------------
(***************************************************************************)
(* Chat rooms, messages and conversations (chat-service, src).  MongoDB    *)
(* applies each write to one document atomically, but a handler is several *)
(* of them, and the unread counters are read and written back.             *)
(*                                                                         *)
(* The rooms are those of one reference and type: create() never reads     *)
(* rooms of two.  All users take part in them; anybody else is refused.    *)
(* A check on what never changes (the room exists, the sender is a         *)
(* participant, the message is one's own) is part of the write after it.   *)
(* Contents, previews and lastReadMessageId are data.                      *)
(***************************************************************************)
EXTENDS Service

CONSTANTS
  Rooms,       \* the documents chat_rooms may come to hold
  MaxMessages  \* the messages that are sent

ASSUME ChatAssumption == MaxMessages \in Nat /\ IsFiniteSet(Rooms)

VARIABLES
  room,          \* collection chat_rooms
  message,       \* collection chat_messages, in the order of createdAt
  conversations  \* the conversations of one group of users and context

chatVars == <<job, room, message, conversations>>

Messages == 1..MaxMessages
Counters == [Users -> Nat]

RoomDoc == [status : {"absent", "ACTIVE", "ARCHIVED"}, unread : Counters]
NoRoom  == [status |-> "absent", unread |-> [u \in Users |-> 0]]

MessageDoc == [room : Rooms, sender : Users, readBy : SUBSET Users, deleted : BOOLEAN]
Unsent == [deleted |-> FALSE]

ChatJob ==
  [step : {"createRoom", "createConversation"}]
    \cup [step : {"preview", "reset"}, room : Rooms, user : Users]
    \cup [step : {"bump"}, room : Rooms, user : Users, unread : Counters]

ChatInit ==
  /\ AllIdle
  /\ room = [r \in Rooms |-> NoRoom]
  /\ message = [m \in Messages |-> Unsent]
  /\ conversations = 0

IsRoom(r) == room[r].status # "absent"
Sent(m) == message[m] # Unsent
MessagesOf(r) == {m \in Messages : Sent(m) /\ message[m].room = r}
ActiveRooms == {r \in Rooms : room[r].status = "ACTIVE"}

-----------------------------------------------------------------------------
(* Rooms.                                                                  *)

\* create(): an active room of the reference is returned if there is one.
FindRoom(s) ==
  /\ IsIdle(s)
  /\ ActiveRooms = {}
  /\ Goto(s, [step |-> "createRoom"])
  /\ UNCHANGED <<room, message, conversations>>

CreateRoom(s, r) ==
  /\ At(s, "createRoom")
  /\ ~IsRoom(r)
  /\ room' = [room EXCEPT ![r].status = "ACTIVE"]
  /\ Return(s)
  /\ UNCHANGED <<message, conversations>>

Archive(r) ==
  /\ room[r].status = "ACTIVE"
  /\ room' = [room EXCEPT ![r].status = "ARCHIVED"]
  /\ UNCHANGED <<job, message, conversations>>

\* PUT /chats/rooms/:id/read.
MarkRead(r, u) ==
  /\ IsRoom(r)
  /\ room' = [room EXCEPT ![r].unread[u] = 0]
  /\ UNCHANGED <<job, message, conversations>>

-----------------------------------------------------------------------------
(* POST /chats/messages: the message, then the room's counters.            *)

\* send(): the room exists, archived or not.
Send(s, r, u, m) ==
  /\ IsIdle(s)
  /\ IsRoom(r)
  /\ ~Sent(m) /\ \A n \in 1..(m - 1) : Sent(n)
  /\ message' = [message EXCEPT ![m] = [room |-> r, sender |-> u, readBy |-> {u},
                                        deleted |-> FALSE]]
  /\ Goto(s, [step |-> "preview", room |-> r, user |-> u])
  /\ UNCHANGED <<room, conversations>>

\* updateLastMessage(): the counters are read ...
ReadCounters(s) ==
  /\ At(s, "preview")
  /\ Goto(s, [step |-> "bump", room |-> job[s].room, user |-> job[s].user,
              unread |-> room[job[s].room].unread])
  /\ UNCHANGED <<room, message, conversations>>

\* Mutant: the counters grow by two.
BumpCountersTwice(s) ==
  /\ At(s, "bump")
  /\ room' = [room EXCEPT ![job[s].room].unread =
                [u \in Users |-> IF u = job[s].user THEN @[u] ELSE job[s].unread[u] + 2]]
  /\ Return(s)
  /\ UNCHANGED <<message, conversations>>

\* ... and written back, one more for everybody but the sender.
BumpCounters(s) ==
  /\ At(s, "bump")
  /\ room' = [room EXCEPT ![job[s].room].unread =
                [u \in Users |-> IF u = job[s].user THEN @[u] ELSE job[s].unread[u] + 1]]
  /\ Return(s)
  /\ UNCHANGED <<message, conversations>>

-----------------------------------------------------------------------------
(* Reading and deleting messages.                                          *)

\* PUT /chats/messages/:id/read; the room's counter is left as it is.
MarkAsRead(m, u) ==
  /\ Sent(m)
  /\ message' = [message EXCEPT ![m].readBy = @ \cup {u}]
  /\ UNCHANGED <<job, room, conversations>>

\* markRoomAsRead(): every message the room has by now is read ...
MarkRoomAsRead(s, r, u) ==
  /\ IsIdle(s)
  /\ MessagesOf(r) # {}
  /\ message' = [m \in Messages |->
                   IF m \in MessagesOf(r) THEN [message[m] EXCEPT !.readBy = @ \cup {u}]
                   ELSE message[m]]
  /\ Goto(s, [step |-> "reset", room |-> r, user |-> u])
  /\ UNCHANGED <<room, conversations>>

\* ... then its counter is set to zero, messages sent since included.
ResetCounter(s) ==
  /\ At(s, "reset")
  /\ room' = [room EXCEPT ![job[s].room].unread[job[s].user] = 0]
  /\ Return(s)
  /\ UNCHANGED <<message, conversations>>

\* delete(): only a mark; the counter keeps the message.
Delete(m) ==
  /\ Sent(m)
  /\ message' = [message EXCEPT ![m].deleted = TRUE]
  /\ UNCHANGED <<job, room, conversations>>

-----------------------------------------------------------------------------
(* POST /conversations.                                                    *)

FindConversation(s) ==
  /\ IsIdle(s)
  /\ conversations = 0
  /\ Goto(s, [step |-> "createConversation"])
  /\ UNCHANGED <<room, message, conversations>>

CreateConversation(s) ==
  /\ At(s, "createConversation")
  /\ conversations' = conversations + 1
  /\ Return(s)
  /\ UNCHANGED <<room, message>>

-----------------------------------------------------------------------------
\* A query throws or the process stops; what was written stays.
AbandonChat(s) ==
  /\ ~IsIdle(s)
  /\ Return(s)
  /\ UNCHANGED <<room, message, conversations>>

\* What each controller serves.
RoomRequests ==
  \/ \E r \in Rooms : Archive(r) \/ \E u \in Users : MarkRead(r, u)
  \/ \E s \in Slots : FindRoom(s) \/ \E r \in Rooms : CreateRoom(s, r)

MessageRequests ==
  \/ \E m \in Messages : Delete(m) \/ \E u \in Users : MarkAsRead(m, u)
  \/ \E s \in Slots :
       \/ \E r \in Rooms, u \in Users, m \in Messages : Send(s, r, u, m)
       \/ \E r \in Rooms, u \in Users : MarkRoomAsRead(s, r, u)
       \/ ReadCounters(s) \/ BumpCounters(s) \/ ResetCounter(s)

ConversationRequests ==
  \E s \in Slots : FindConversation(s) \/ CreateConversation(s)

ChatNext ==
  \/ RoomRequests \/ MessageRequests \/ ConversationRequests
  \/ \E s \in Slots : AbandonChat(s)

ChatSpec == ChatInit /\ [][ChatNext]_chatVars

-----------------------------------------------------------------------------
(* Properties.                                                             *)

\* The documents and the locals of the handlers have their types.
ChatTypeOK ==
  /\ room \in [Rooms -> RoomDoc]
  /\ message \in [Messages -> MessageDoc \cup {Unsent}]
  /\ conversations \in Nat
  /\ job \in [Slots -> ChatJob \cup {Idle}]

\* Without a unique index a reference can have several active rooms, and users
\* several conversations, but only as many as requests that overlap.
RoomsWithinOverlap ==
  /\ Cardinality(ActiveRooms) <= Cardinality(Slots)
  /\ conversations <= Cardinality(Slots)

\* Lost updates and late resets make an unread counter too small or leave it
\* after the messages were read, but it never exceeds the messages of others.
UnreadWithinMessages ==
  \A r \in Rooms, u \in Users :
    room[r].unread[u] <= Cardinality({m \in MessagesOf(r) : message[m].sender # u})
=============================================================================

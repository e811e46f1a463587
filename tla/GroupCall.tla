----------------------------- MODULE GroupCall -----------------------------
(***************************************************************************)
(* What the conference chats of a group's video calls promise, without     *)
(* saying how (the head of backend/src/livekit/callSession.ts): the calls  *)
(* of a group follow one another, each with a chat of its own.  At most    *)
(* the newest of them is going on, and a call that is over never goes on   *)
(* again: whoever talks next, talks in a new one.                          *)
(***************************************************************************)
EXTENDS Naturals

CONSTANTS Users, Calls

VARIABLES
  opened,    \* how many calls there have been; they are 1..opened
  running,   \* the call that is going on, if one is
  chat       \* chat[c]: who has access to the chat of call c

calls == <<opened, running, chat>>

Init ==
  /\ opened = 0
  /\ running = {}
  /\ chat = [c \in Calls |-> {}]

\* The next call begins, and with it whatever was going on is over.
Open(u, c) ==
  /\ c = opened + 1
  /\ opened' = c
  /\ running' = {c}
  /\ chat' = [chat EXCEPT ![c] = {u}]

\* Somebody comes to a call there has been.
Enter(u, c) ==
  /\ c <= opened
  /\ chat' = [chat EXCEPT ![c] = @ \cup {u}]
  /\ UNCHANGED <<opened, running>>

End ==
  /\ running' = {}
  /\ UNCHANGED <<opened, chat>>

\* Somebody loses the access to all of them.
Leave(u) ==
  /\ chat' = [c \in Calls |-> chat[c] \ {u}]
  /\ UNCHANGED <<opened, running>>

Next ==
  \/ \E u \in Users : \/ Leave(u)
                      \/ \E c \in Calls : Open(u, c) \/ Enter(u, c)
  \/ End

Spec == Init /\ [][Next]_calls
=============================================================================

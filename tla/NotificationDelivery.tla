------------------------ MODULE NotificationDelivery ------------------------
(***************************************************************************)
(* What the notification center promises, without maps, locks or copies.   *)
(*                                                                         *)
(* There is one set of registrations.  A post calls an observer only while *)
(* a registration of that observer covers the notification, at most once   *)
(* for each registration, and does not end before it has called, for every *)
(* registration that covers the notification and that has been there from  *)
(* its beginning to now, the observer.                                     *)
(***************************************************************************)
EXTENDS Integers, Sequences

CONSTANTS
  Threads,
  Observers,
  Names,
  Senders,
  Nil,
  Regs       \* what tells one registration from another

VARIABLES
  registered,  \* the registrations in force
  closed,      \* no further post begins
  posts        \* for each thread, the posts in progress, the innermost last

dvars == <<registered, closed, posts>>

Registration ==
  [observer : Observers, name : Names \union {Nil},
   sender : Senders \union {Nil}, reg : Regs]

(***************************************************************************)
(* The truth table of NSNotificationCenter.m: n and s of the registration  *)
(* against those of the notification.                                      *)
(***************************************************************************)
Covers(r, n, s) == r.name \in {Nil, n} /\ r.sender \in {Nil, s}

RegsOf(rs) == { r.reg : r \in rs }

DInit ==
  /\ registered = {}
  /\ closed = FALSE
  /\ posts = [t \in Threads |-> << >>]

Current(t) == posts[t][Len(posts[t])]

(***************************************************************************)
(* A thread is posting when an observer is not running in its last post.   *)
(***************************************************************************)
IsPosting(t) == posts[t] # << >> /\ Current(t).running = Nil

Register(r) ==
  /\ r.reg \notin RegsOf(registered)
  /\ registered' = registered \union {r}
  /\ UNCHANGED <<closed, posts>>

(***************************************************************************)
(* A post no longer owes a call to a registration that was taken back.     *)
(***************************************************************************)
Unregister(o, n, s) ==
  LET gone == { r \in registered : /\ r.observer = o
                                   /\ n \in {Nil, r.name} /\ s \in {Nil, r.sender} }
  IN  /\ registered' = registered \ gone
      /\ posts' = [t \in Threads |-> [d \in DOMAIN posts[t] |->
                     [posts[t][d] EXCEPT !.owed = @ \ RegsOf(gone)]]]
      /\ UNCHANGED closed

BeginPost(t, n, s) ==
  /\ ~IsPosting(t)
  /\ ~closed
  /\ posts' = [posts EXCEPT ![t] = Append(@,
       [name |-> n, sender |-> s, running |-> Nil, called |-> {},
        owed |-> RegsOf({ r \in registered : Covers(r, n, s) })])]
  /\ UNCHANGED <<registered, closed>>

Deliver(t, o, reg) ==
  /\ IsPosting(t)
  /\ \E r \in registered : r.observer = o /\ Covers(r, Current(t).name, Current(t).sender)
  /\ reg \notin Current(t).called
  /\ posts' = [posts EXCEPT ![t][Len(posts[t])] =
       [Current(t) EXCEPT !.running = o, !.called = @ \union {reg}, !.owed = @ \ {reg}]]
  /\ UNCHANGED <<registered, closed>>

Finished(t) ==
  /\ posts[t] # << >>
  /\ Current(t).running # Nil
  /\ posts' = [posts EXCEPT ![t][Len(posts[t])].running = Nil]
  /\ UNCHANGED <<registered, closed>>

(***************************************************************************)
(* A post ends with nothing owed, or because an observer raised.           *)
(***************************************************************************)
EndPost(t) ==
  /\ posts[t] # << >>
  /\ Current(t).running = Nil => Current(t).owed = {}
  /\ posts' = [posts EXCEPT ![t] = SubSeq(@, 1, Len(@) - 1)]
  /\ UNCHANGED <<registered, closed>>

Close == closed' = TRUE /\ UNCHANGED <<registered, posts>>

Change ==
  \/ \E r \in Registration : Register(r)
  \/ \E o \in Observers, n \in Names \union {Nil}, s \in Senders \union {Nil} :
       Unregister(o, n, s)

Proceed(t) ==
  \/ \E n \in Names, s \in Senders \union {Nil} : BeginPost(t, n, s)
  \/ IsPosting(t) /\ \E o \in Observers, reg \in Regs : Deliver(t, o, reg)
  \/ Finished(t)
  \/ EndPost(t)

(***************************************************************************)
(* Every step changes the registrations, or a post, or closes.             *)
(***************************************************************************)
DNext ==
  \/ registered' # registered /\ Change
  \/ posts' # posts /\ \E t \in Threads : Proceed(t)
  \/ Close

DSpec == DInit /\ [][DNext]_dvars

=============================================================================

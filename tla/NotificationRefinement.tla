----------------------- MODULE NotificationRefinement -----------------------
(***************************************************************************)
(* The notification center keeps the promise of NotificationDelivery.      *)
(***************************************************************************)
EXTENDS NotificationCenter

CONSTANT Regs   \* bound: the generations a registration can be made in

(***************************************************************************)
(* The registrations in force, as the observer registry knows them.        *)
(***************************************************************************)
Registered ==
  UNION { { [observer |-> o, name |-> p.name, sender |-> p.sender, reg |-> p.reg] :
              p \in Elements(pairs[o]) } : o \in DOMAIN pairs }

RegsOf(q) == { x.reg : x \in Elements(q) }

(***************************************************************************)
(* The copied triplets that f has yet to look at, and whether registration *)
(* r is one of them or waits under a key that f has yet to copy.           *)
(***************************************************************************)
Pending(f) == IF f.pc = "calling" THEN Front(f.buf) ELSE f.buf

Ahead(f, r) ==
  LET k == Key(r.name, r.sender) IN
  \/ k \in Elements(Tail(f.route))
  \/ /\ k = Head(f.route)
     /\ \/ f.pc = "copy"
        \/ r.reg \in RegsOf(Pending(f))

(***************************************************************************)
(* The registrations f still owes a call: made before it began, in force,  *)
(* covering its notification, and not behind it on its route.              *)
(***************************************************************************)
Owed(f) ==
  { r.reg : r \in { r \in Registered : /\ r.reg < f.start
                                       /\ (r.name = Nil \/ r.name = f.name)
                                       /\ (r.sender = Nil \/ r.sender = f.sender)
                                       /\ Ahead(f, r) } }

Abstract(f) ==
  [name |-> f.name, sender |-> f.sender,
   running |-> IF f.pc = "calling" THEN Last(f.buf).observer ELSE Nil,
   called |-> RegsOf(f.called), owed |-> Owed(f)]

PostsOf(q) ==
  LET F[i \in 0 .. Len(q)] ==
        IF i = 0 THEN << >>
        ELSE IF q[i].op = "post" THEN Append(F[i - 1], q[i]) ELSE F[i - 1]
  IN  F[Len(q)]

Posts(t) ==
  [d \in DOMAIN PostsOf(stack[t]) |-> Abstract(PostsOf(stack[t])[d])]

AllPosts == [t \in Threads |-> Posts(t)]

Delivery ==
  INSTANCE NotificationDelivery WITH
    registered <- Registered,
    closed <- finalizing,
    posts <- AllPosts

(***************************************************************************)
(* Every step of the center is a step of the promise, or none.             *)
(***************************************************************************)
ImplementsDelivery == Delivery!DSpec

=============================================================================

---------------------------- MODULE ScHostAddress ----------------------------
(***************************************************************************)
(* Addresses of hosts, from                                                *)
(*   src/src/ScNetwork/src/kernel/schostaddress.cpp                        *)
(*   src/src/ScUtils/include/scutils/utils/scexplicitlysharedpointer.h     *)
(*                                                                         *)
(* A number of 32 bits is the pair of its upper and its lower 16. The      *)
(* bytes of a6 are four such numbers as fromBigEndian() reads them, and    *)
(* toBigEndian() writes them.                                              *)
(***************************************************************************)
EXTENDS Integers, FiniteSets

CONSTANTS Handles,                \* the ScHostAddress objects
          DataIds,                \* a bound of the ScHostAddressPrivate objects
          IPv4Addresses,          \* the numbers that setAddress() is called with
          IPv6Addresses,          \* and the bytes
          Null                    \* for an object that does not exist

AddressAssumption == IsFiniteSet(Handles) /\ Null \notin DataIds

VARIABLES pointer,                \* d of each handle
          private,                \* the private objects
          told                    \* what the handle's own calls have set

vars == <<pointer, private, told>>

Zero == <<0, 0>>
OneWord == <<0, 1>>
Mapped == <<0, 65535>>
Loopback == <<32512, 1>>
Broadcast == <<65535, 65535>>

AllZero == <<Zero, Zero, Zero, Zero>>

IPv4Protocol == 0
IPv6Protocol == 1
UnknownProtocolType == 255        \* -1 in an unsigned char

Private(p, a4, a6) == [protocol |-> p, a4 |-> a4, a6 |-> a6]
New == Private(IPv4Protocol, Zero, AllZero)

\* convertToIpv4(), with ConvertV4MappedToIPv4 and ConvertUnspecifiedAddress.
IsMapped(a6) == a6[1] = Zero /\ a6[2] = Zero /\ a6[3] = Mapped
CanConvert(a6) == IsMapped(a6) \/ a6 = AllZero
Converted(a6) == IF IsMapped(a6) THEN a6[4] ELSE Zero

\* ScHostAddressPrivate::setAddress(), of a number. The words before the last two
\* are set to zero, those only when the number is not.
IPv4Words(a4) == <<Zero, Zero, Zero, a4>>       \* without the mark
SetIPv4Fault(a4) == Private(IPv4Protocol, a4, IF a4 = Zero THEN AllZero ELSE IPv4Words(a4))
SetIPv4(a4) ==
  Private(IPv4Protocol, a4, IF a4 = Zero THEN AllZero ELSE <<Zero, Zero, Mapped, a4>>)

\* Of sixteen bytes.
SetIPv6(a6) == Private(IPv6Protocol, Converted(a6), a6)

Cleared == Private(UnknownProtocolType, Zero, AllZero)

\* setAddress(), of a type, after clear(). Any is set as a number in the end, which
\* undoes its protocol.
OfType(type) ==
  CASE type = "Null"         -> Cleared
    [] type = "Broadcast"    -> SetIPv4(Broadcast)
    [] type = "LocalHost"    -> SetIPv4(Loopback)
    [] type = "LocalHostIPv6" -> SetIPv6(<<Zero, Zero, Zero, OneWord>>)
    [] type = "AnyIPv6"      -> SetIPv6(AllZero)
    [] type \in {"Any", "AnyIPv4"} -> SetIPv4(Zero)

Types == {"Null", "Broadcast", "LocalHost", "LocalHostIPv6", "AnyIPv6", "Any", "AnyIPv4"}

-----------------------------------------------------------------------------

Init ==
  /\ pointer = [h \in Handles |-> Null]
  /\ private = [i \in DataIds |-> New]
  /\ told = [h \in Handles |-> New]

Exists(h) == pointer[h] # Null
Users(f, i) == {h \in Handles : f[h] = i}
Free == {i \in DataIds : Users(pointer, i) = {}}
FirstFree == {i \in Free : \A j \in Free : i <= j}

\* What no shared pointer points to any more is gone.
Leave(pointers, objects) ==
  /\ pointer' = pointers
  /\ private' = [i \in DataIds |-> IF Users(pointers, i) = {} THEN New ELSE objects[i]]

\* detach(), then the private object becomes p.
DetachedFault(h, p) == pointer' = pointer /\ private' = [private EXCEPT ![pointer[h]] = p]
Detached(h, p) ==
  IF Cardinality(Users(pointer, pointer[h])) = 1
  THEN pointer' = pointer /\ private' = [private EXCEPT ![pointer[h]] = p]
  ELSE \E i \in FirstFree :
         Leave([pointer EXCEPT ![h] = i], [private EXCEPT ![i] = p])

\* The constructors: a new private object, and setAddress(). The one of a string
\* calls parse(), which does nothing.
Make(h, p) ==
  /\ ~Exists(h)
  /\ \E i \in FirstFree : Leave([pointer EXCEPT ![h] = i], [private EXCEPT ![i] = p])
  /\ told' = [told EXCEPT ![h] = p]

Create(h) ==
  \/ Make(h, New)
  \/ \E a4 \in IPv4Addresses : Make(h, SetIPv4(a4))
  \/ \E a6 \in IPv6Addresses : Make(h, SetIPv6(a6))
  \/ \E type \in Types : Make(h, OfType(type))

\* The copy constructor, and the operator= that the class has by default.
Copy(h, g) ==
  /\ Exists(g)
  /\ Leave([pointer EXCEPT ![h] = pointer[g]], private)
  /\ told' = [told EXCEPT ![h] = told[g]]

Destroy(h) ==
  /\ Exists(h)
  /\ Leave([pointer EXCEPT ![h] = Null], private)
  /\ told' = [told EXCEPT ![h] = New]

Set(h, p) == Exists(h) /\ Detached(h, p) /\ told' = [told EXCEPT ![h] = p]

setIPv4Address(h) == \E a4 \in IPv4Addresses : Set(h, SetIPv4(a4))
setIPv6Address(h) == \E a6 \in IPv6Addresses : Set(h, SetIPv6(a6))
setType(h) == \E type \in Types : Set(h, OfType(type))
clear(h) == Exists(h) /\ Set(h, Cleared)

\* setAddress(), of a string: detach(), and the address stays.
setString(h) == Exists(h) /\ Set(h, private[pointer[h]])

Next ==
  \/ \E h \in Handles :
       \/ Create(h) \/ Destroy(h) \/ clear(h)
       \/ setIPv4Address(h) \/ setIPv6Address(h) \/ setType(h) \/ setString(h)
  \/ \E h, g \in Handles : h # g /\ Copy(h, g)

Spec == Init /\ [][Next]_vars

-----------------------------------------------------------------------------
(* Properties                                                              *)

TypeOK ==
  /\ pointer \in [Handles -> DataIds \cup {Null}]
  /\ \A i \in DataIds : private[i].protocol \in {IPv4Protocol, IPv6Protocol, UnknownProtocolType}

\* Every address is what its own calls have set, whoever it was copied from or to;
\* and its two forms agree: the one of 4 bytes is that of 16, where that has one,
\* and 0 where it has none (schostaddress.cpp:86-134, 182-193, 225-253).
SharingIsInvisible ==
  \A h \in Handles : Exists(h) =>
    LET p == private[pointer[h]]
    IN  /\ p = told[h]
        /\ p.a4 = Converted(p.a6)
        /\ p.protocol = IPv4Protocol => CanConvert(p.a6)
=============================================================================

---------------------------- MODULE WalletStore ----------------------------
(***************************************************************************)
(* What the vault promises the wallet above it (notyas-wallet, vault.rs):  *)
(* slots of user data, each owned by the identity that wrote it, and one   *)
(* PIN per identity.  Every operation is one indivisible change; the two   *)
(* sides of a slot, generations, filler and power cuts are invisible here. *)
(*                                                                         *)
(* The promise is made to a caller who mounts the store again after a call *)
(* that failed.  Once a call is made without that, kept is FALSE and       *)
(* nothing is promised.                                                    *)
(***************************************************************************)
EXTENDS Naturals

CONSTANTS User, Identity, First, Pin, Data, NoPin, Nothing

VARIABLES contents,  \* slot -> what it holds
          pin,       \* identity -> the PIN that opens it, or NoPin
          kept       \* the caller has kept its side

store == <<contents, pin, kept>>

Entry == (Identity \X Data) \cup {Nothing}

Init ==
  /\ contents = [u \in User |-> Nothing]
  /\ pin \in [Identity -> Pin \cup {NoPin}]
  /\ kept = TRUE

Closed == \A i \in Identity : pin[i] = NoPin

Format(p) ==
  /\ Closed
  /\ pin' = [pin EXCEPT ![First] = p]
  /\ UNCHANGED <<contents, kept>>

Put(u, i, d) ==
  /\ pin[i] # NoPin
  /\ contents' = [contents EXCEPT ![u] = <<i, d>>]
  /\ UNCHANGED <<pin, kept>>

Drop(u) ==
  /\ contents' = [contents EXCEPT ![u] = Nothing]
  /\ UNCHANGED <<pin, kept>>

\* The PIN changes, and nothing else does.
ChangePin(i, p) ==
  /\ pin[i] # NoPin
  /\ pin' = [pin EXCEPT ![i] = p]
  /\ UNCHANGED <<contents, kept>>

\* An identity that is enrolled again starts with nothing.
Enrol(i, p) ==
  /\ i # First /\ ~Closed
  /\ pin' = [pin EXCEPT ![i] = p]
  /\ contents' = [u \in User |->
                    IF contents[u] \in {i} \X Data THEN Nothing ELSE contents[u]]
  /\ UNCHANGED kept

Wipe ==
  /\ contents' = [u \in User |-> Nothing]
  /\ pin' = [i \in Identity |-> NoPin]
  /\ UNCHANGED kept

\* What the caller may expect from here on is anything.
GiveUp == kept /\ kept' = FALSE

\* Most steps of the store below do not show here.
Quiet == UNCHANGED store

Next ==
  \/ Quiet
  \/ kept /\ \/ \E p \in Pin : Format(p)
             \/ \E u \in User, i \in Identity, d \in Data : Put(u, i, d)
             \/ \E u \in User : Drop(u)
             \/ \E i \in Identity, p \in Pin : ChangePin(i, p) \/ Enrol(i, p)
             \/ Wipe
  \/ GiveUp
  \/ ~kept /\ kept' = FALSE

Spec == Init /\ [][Next]_store

=============================================================================

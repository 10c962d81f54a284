---------------------------- MODULE DeviceProofs ----------------------------
(***************************************************************************)
(* Theorems about Device, for any number of slots, wallets, transactions   *)
(* and screens below the one that shows.                                   *)
(***************************************************************************)
EXTENDS Device, TLAPS

USE DeviceAssumption

-----------------------------------------------------------------------------
(***************************************************************************)
(* The inductive invariant.  The stack of screens is a run of screens that *)
(* hold no wallet and then, perhaps, the one home screen of the wallet     *)
(* that is open with the screens that hold it: this is why a wallet can be *)
(* closed by looking at the screen that shows and nothing else.            *)
(***************************************************************************)
Homes == {"WalletHome", "Schemes"}

Over == HoldsAWallet \ Homes

Signing == {"SignSource", "FilePicker", "Review", "Deliver"}

\* The screens on which another one is pushed.
Bases == {"Wallets", "Make", "Fork", "WalletHome", "Erase", "SignSource", "FilePicker",
          "MultisigList"}

Ids == HoldsAWallet \cup Bases \cup
       {"Home", "Lock", "Pin", "SetPin", "Name", "PassUnlock", "Settings", "Words"}

Frame ==
  [id : Ids, slot : Slots \cup {None}, wallet : Wallet \cup {None}, stored : BOOLEAN,
   keys : BOOLEAN, busy : BOOLEAN, tx : Tx \cup {None}]

FlowSet ==
  [wallet : Wallet \cup {None}, slot : Slots \cup {None}, loaded : Tx \cup {None},
   signed : {None} \cup [tx : Tx, by : Wallet], pending : BOOLEAN]

Stack == Append(prior, screen)

Shape(p) ==
  \A j \in 1 .. Len(p) :
    /\ \A i \in 1 .. (j - 1) :
         p[i].id \in Bases /\ (p[i].id \in HoldsAWallet => p[j].id \in Over)
    /\ p[j].id \in Over => \E i \in 1 .. (j - 1) : p[i].id \in Homes

\* What a screen anywhere in the stack goes with.
Fits(f, fl, se) ==
  /\ ~se => ~f.stored /\ f.id \notin {"PassUnlock", "Erase", "Words"}
  /\ se => f.id \notin {"Lock", "Pin"}
  /\ f.id \in Homes /\ fl.wallet # None =>
       f.stored /\ f.keys /\ f.slot = fl.slot /\ f.wallet = fl.wallet
  /\ f.id \in Homes /\ f.stored /\ f.keys => fl.wallet # None
  /\ f.id \in Signing => fl.wallet # None
  /\ f.id \in {"PassUnlock", "Erase"} \/ f.stored => f.slot \in Slots

Panel(p, fl, se) ==
  Shape(p) /\ \A i \in 1 .. Len(p) : p[i] \in Frame /\ Fits(p[i], fl, se)

\* What the screen that shows goes with.
Shows(s, fl) ==
  /\ s.id = "Review" => fl.loaded = s.tx
  /\ s.id = "Deliver" => fl.signed = [tx |-> s.tx, by |-> fl.wallet]
  /\ fl.signed # None => s.id = "Deliver"

Rows == [Slots -> Wallet \cup {None}]

StoreAgrees ==
  /\ disk \in Rows /\ rows \in Rows
  /\ session => pin /\ status = "unlocked" /\ rows = disk
  /\ ~session => status # "unlocked" /\ rows = NoRows
  /\ ~pin => disk = NoRows

FlowAgrees ==
  /\ flow \in FlowSet /\ listed \in Wallet \cup {None}
  /\ ~session => flow = Closed /\ held = {} /\ listed = None
  /\ ~IsOpen => flow = Closed
  /\ IsOpen => listed = flow.wallet /\ disk[flow.slot] = flow.wallet
  /\ IsOpen => screen.id \in HoldsAWallet

IInv ==
  /\ prior \in Seq(Frame) /\ screen \in Frame
  /\ StoreAgrees /\ FlowAgrees
  /\ Panel(Stack, flow, session) /\ Shows(screen, flow)

-----------------------------------------------------------------------------
(* Screens. *)

LEMMA PlainTyped ==
  ASSUME NEW id \in Ids
  PROVE  /\ Plain(id) \in Frame /\ Plain(id).id = id /\ Plain(id).wallet = None
         /\ ~Plain(id).stored /\ Plain(id).tx = None
         /\ \A x \in Slots \cup {None}, w \in Wallet \cup {None} :
              /\ Naming(id, x, w) \in Frame /\ Naming(id, x, w).id = id
              /\ Naming(id, x, w).slot = x /\ Naming(id, x, w).wallet = w
              /\ ~Naming(id, x, w).stored
         /\ \A t \in Tx \cup {None} :
              /\ Showing(id, t) \in Frame /\ Showing(id, t).id = id
              /\ Showing(id, t).tx = t /\ ~Showing(id, t).stored
<1>1. /\ Plain(id) \in Frame /\ Plain(id).id = id /\ Plain(id).wallet = None
      /\ ~Plain(id).stored /\ Plain(id).tx = None
  BY DEF Plain, Frame
<1>2. ASSUME NEW x \in Slots \cup {None}, NEW w \in Wallet \cup {None}
      PROVE  /\ Naming(id, x, w) \in Frame /\ Naming(id, x, w).id = id
             /\ Naming(id, x, w).slot = x /\ Naming(id, x, w).wallet = w
             /\ ~Naming(id, x, w).stored
  BY <1>1 DEF Naming, Plain, Frame
<1>3. ASSUME NEW t \in Tx \cup {None}
      PROVE  /\ Showing(id, t) \in Frame /\ Showing(id, t).id = id
             /\ Showing(id, t).tx = t /\ ~Showing(id, t).stored
  BY <1>1 DEF Showing, Plain, Frame
<1> QED BY <1>1, <1>2, <1>3

LEMMA NamingTyped ==
  ASSUME NEW id \in Ids, NEW x \in Slots \cup {None}, NEW w \in Wallet \cup {None}
  PROVE  /\ Naming(id, x, w) \in Frame /\ Naming(id, x, w).id = id
         /\ Naming(id, x, w).slot = x /\ Naming(id, x, w).wallet = w
         /\ ~Naming(id, x, w).stored
BY PlainTyped

\* The home screen of a wallet that is stored or not, with its keys or without.
HomeOf(n, x, w) == n \in Frame /\ n.id = "WalletHome" /\ n.slot = x /\ n.wallet = w

LEMMA HomeTyped ==
  ASSUME NEW x \in Slots \cup {None}, NEW w \in Wallet \cup {None}
  PROVE  /\ HomeOf(WalletHome(x, w, TRUE, TRUE), x, w)
         /\ WalletHome(x, w, TRUE, TRUE).stored /\ WalletHome(x, w, TRUE, TRUE).keys
         /\ HomeOf(WalletHome(x, w, TRUE, FALSE), x, w)
         /\ WalletHome(x, w, TRUE, FALSE).stored /\ ~WalletHome(x, w, TRUE, FALSE).keys
         /\ HomeOf(WalletHome(x, w, FALSE, TRUE), x, w)
         /\ ~WalletHome(x, w, FALSE, TRUE).stored
<1>1. "WalletHome" \in Ids
  BY DEF Ids, Bases
<1>2. /\ HomeOf(WalletHome(x, w, TRUE, TRUE), x, w)
      /\ WalletHome(x, w, TRUE, TRUE).stored /\ WalletHome(x, w, TRUE, TRUE).keys
  BY <1>1 DEF HomeOf, WalletHome, Naming, Plain, Frame
<1>3. /\ HomeOf(WalletHome(x, w, TRUE, FALSE), x, w)
      /\ WalletHome(x, w, TRUE, FALSE).stored /\ ~WalletHome(x, w, TRUE, FALSE).keys
  BY <1>1 DEF HomeOf, WalletHome, Naming, Plain, Frame
<1>4. /\ HomeOf(WalletHome(x, w, FALSE, TRUE), x, w)
      /\ ~WalletHome(x, w, FALSE, TRUE).stored
  BY <1>1 DEF HomeOf, WalletHome, Naming, Plain, Frame
<1> QED BY <1>2, <1>3, <1>4

LEMMA ClosedTyped ==
  /\ Closed \in FlowSet /\ Closed.wallet = None /\ Closed.signed = None
  /\ Closed.loaded = None /\ Closed.pending = FALSE /\ Closed.slot = None
BY DEF Closed, FlowSet

\* Kinds of screen.
LEMMA Kinds ==
  /\ HoldsAWallet \subseteq Ids /\ Bases \subseteq Ids
  /\ Homes \subseteq HoldsAWallet /\ Signing \subseteq Over /\ Over \subseteq HoldsAWallet
  /\ Homes \cap Over = {} /\ HoldsAWallet \subseteq Homes \cup Over
BY DEF HoldsAWallet, Ids, Homes, Over, Signing, Bases

-----------------------------------------------------------------------------
(* The stack, and what becomes of it. *)

LEMMA Stacked ==
  ASSUME NEW p \in Seq(Frame), NEW s \in Frame
  PROVE  /\ Append(p, s) \in Seq(Frame) /\ Len(p) \in Nat /\ Len(Append(p, s)) = Len(p) + 1
         /\ \A i \in 1 .. Len(p) : Append(p, s)[i] = p[i]
         /\ Append(p, s)[Len(p) + 1] = s
OBVIOUS

LEMMA PanelPush ==
  ASSUME NEW p \in Seq(Frame), NEW s \in Frame, NEW n \in Frame, NEW fl, NEW se,
         Panel(Append(p, s), fl, se), Fits(n, fl, se),
         s.id \in Bases, s.id \in HoldsAWallet <=> n.id \in Over
  PROVE  Panel(Append(Append(p, s), n), fl, se)
<1> DEFINE q == Append(p, s)
           r == Append(q, n)
           k == Len(p) + 1
<1>1. /\ q \in Seq(Frame) /\ k \in Nat /\ Len(q) = k /\ q[k] = s
      /\ Len(r) = k + 1 /\ r[k + 1] = n /\ \A i \in 1 .. k : r[i] = q[i]
  <2>1. q \in Seq(Frame) /\ k \in Nat /\ Len(q) = k /\ q[k] = s
    BY Stacked
  <2> HIDE DEF q, k
  <2> QED BY <2>1, Stacked
<1>2. Panel(q, fl, se)
  OBVIOUS
<1> HIDE DEF q, r, k
<1>3. ASSUME NEW j \in 1 .. k
      PROVE  /\ \A i \in 1 .. (j - 1) :
                  r[i].id \in Bases /\ (r[i].id \in HoldsAWallet => r[j].id \in Over)
             /\ r[j].id \in Over => \E i \in 1 .. (j - 1) : r[i].id \in Homes
             /\ r[j] \in Frame /\ Fits(r[j], fl, se)
  <2>1. \A i \in 1 .. (j - 1) : i \in 1 .. k
    BY <1>1
  <2> QED BY <1>1, <1>2, <2>1 DEF Panel, Shape
<1>4. \A i \in 1 .. k : r[i].id \in Bases /\ (r[i].id \in HoldsAWallet => n.id \in Over)
  <2> TAKE i \in 1 .. k
  <2>1. CASE i = k
    BY <1>1, <2>1
  <2>2. CASE i # k
    <3>1. i \in 1 .. (k - 1) /\ k \in 1 .. k
      BY <1>1, <2>2
    <3>2. q[i].id \in Bases /\ (q[i].id \in HoldsAWallet => s.id \in Over)
      BY <1>1, <1>2, <3>1 DEF Panel, Shape
    <3> QED BY <1>1, <3>2, Kinds
  <2> QED BY <2>1, <2>2
<1>5. n.id \in Over => \E i \in 1 .. k : r[i].id \in Homes
  <2> SUFFICES ASSUME n.id \in Over PROVE \E i \in 1 .. k : r[i].id \in Homes
    OBVIOUS
  <2>1. k \in 1 .. k /\ r[k] = s
    BY <1>1 DEF k
  <2>2. CASE s.id \in Homes
    BY <2>1, <2>2
  <2>3. CASE s.id \notin Homes
    <3>1. s.id \in Over
      BY <2>3, Kinds
    <3>2. \E i \in 1 .. (k - 1) : q[i].id \in Homes
      BY <1>1, <1>2, <2>1, <3>1 DEF Panel, Shape
    <3> QED BY <1>1, <3>2
  <2> QED BY <2>2, <2>3
<1>6. ASSUME NEW j \in 1 .. (k + 1)
      PROVE  /\ \A i \in 1 .. (j - 1) :
                  r[i].id \in Bases /\ (r[i].id \in HoldsAWallet => r[j].id \in Over)
             /\ r[j].id \in Over => \E i \in 1 .. (j - 1) : r[i].id \in Homes
             /\ r[j] \in Frame /\ Fits(r[j], fl, se)
  <2>1. CASE j = k + 1
    <3>1. r[j] = n /\ j - 1 = k
      BY <1>1, <2>1
    <3> QED BY <1>4, <1>5, <3>1
  <2>2. CASE j # k + 1
    <3>1. j \in 1 .. k
      BY <1>1, <2>2
    <3> QED BY <1>3, <3>1
  <2> QED BY <2>1, <2>2
<1>7. Panel(r, fl, se)
  BY <1>1, <1>6 DEF Panel, Shape
<1> QED BY <1>7 DEF r, q

LEMMA PanelEnter ==
  ASSUME NEW p \in Seq(Frame), NEW s \in Frame, NEW n \in Frame, NEW fl, NEW se,
         Panel(Append(p, s), fl, se), Fits(n, fl, se), s.id \in Over <=> n.id \in Over
  PROVE  Panel(Append(p, n), fl, se)
<1> DEFINE q == Append(p, s)
           r == Append(p, n)
           k == Len(p) + 1
<1>1. /\ k \in Nat \ {0} /\ Len(q) = k /\ q[k] = s /\ Len(r) = k /\ r[k] = n
      /\ \A i \in 1 .. (k - 1) : r[i] = q[i]
  <2>1. /\ Len(q) = k /\ q[k] = s /\ Len(p) \in Nat /\ \A i \in 1 .. Len(p) : q[i] = p[i]
    BY Stacked
  <2>2. /\ Len(r) = k /\ r[k] = n /\ \A i \in 1 .. Len(p) : r[i] = p[i]
    BY Stacked
  <2>3. k - 1 = Len(p)
    BY <2>1
  <2> QED BY <2>1, <2>2, <2>3
<1>2. Panel(q, fl, se)
  OBVIOUS
<1> HIDE DEF q, r, k
<1>3. ASSUME NEW j \in 1 .. k
      PROVE  /\ \A i \in 1 .. (j - 1) :
                  r[i].id \in Bases /\ (r[i].id \in HoldsAWallet => r[j].id \in Over)
             /\ r[j].id \in Over => \E i \in 1 .. (j - 1) : r[i].id \in Homes
             /\ r[j] \in Frame /\ Fits(r[j], fl, se)
  <2>1. /\ \A i \in 1 .. (j - 1) :
             q[i].id \in Bases /\ (q[i].id \in HoldsAWallet => q[j].id \in Over)
        /\ q[j].id \in Over => \E i \in 1 .. (j - 1) : q[i].id \in Homes
        /\ q[j] \in Frame /\ Fits(q[j], fl, se)
    BY <1>1, <1>2 DEF Panel, Shape
  <2>2. \A i \in 1 .. (j - 1) : r[i] = q[i]
    BY <1>1
  <2>3. CASE j = k
    BY <1>1, <2>1, <2>2, <2>3
  <2>4. CASE j # k
    <3>1. r[j] = q[j]
      BY <1>1, <2>4
    <3> QED BY <2>1, <2>2, <3>1
  <2> QED BY <2>3, <2>4
<1>4. Panel(r, fl, se)
  BY <1>1, <1>3 DEF Panel, Shape
<1> QED BY <1>4 DEF r

\* What is left of a stack.
LEMMA PanelPop ==
  ASSUME NEW p \in Seq(Frame), p # <<>>, NEW s \in Frame, NEW fl, NEW se,
         Panel(Append(p, s), fl, se)
  PROVE  /\ Front(p) \in Seq(Frame) /\ Last(p) \in Frame /\ Last(p).id \in Bases
         /\ Panel(Append(Front(p), Last(p)), fl, se)
<1> DEFINE q == Append(p, s)
           k == Len(p)
           r == Append(Front(p), Last(p))
<1>1. /\ k \in Nat \ {0} /\ Len(q) = k + 1 /\ \A i \in 1 .. k : q[i] = p[i]
  <2>1. Len(p) \in Nat /\ Len(p) # 0
    OBVIOUS
  <2> QED BY <2>1, Stacked
<1>2. /\ Front(p) \in Seq(Frame) /\ Last(p) = p[k] /\ p[k] \in Frame
      /\ Len(Front(p)) = k - 1 /\ \A i \in 1 .. (k - 1) : Front(p)[i] = p[i]
  <2>1. Last(p) = p[k] /\ p[k] \in Frame
    BY <1>1 DEF Last
  <2>2. Front(p) = SubSeq(p, 1, k - 1)
    BY DEF Front
  <2>3. k - 1 \in Nat
    BY <1>1
  <2>4. /\ SubSeq(p, 1, k - 1) \in Seq(Frame) /\ Len(SubSeq(p, 1, k - 1)) = k - 1
        /\ \A i \in 1 .. (k - 1) : SubSeq(p, 1, k - 1)[i] = p[i]
    <3> DEFINE m == k - 1
    <3>1. m \in 0 .. Len(p)
      BY <1>1
    <3> HIDE DEF m
    <3>2. /\ SubSeq(p, 1, m) \in Seq(Frame) /\ Len(SubSeq(p, 1, m)) = m
          /\ \A i \in 1 .. m : SubSeq(p, 1, m)[i] = p[i]
      BY <3>1
    <3> QED BY <3>2 DEF m
  <2> QED BY <2>1, <2>2, <2>4
<1>3. Len(r) = k /\ \A i \in 1 .. k : r[i] = q[i]
  <2>1. Len(r) = Len(Front(p)) + 1 /\ \A i \in 1 .. Len(Front(p)) : r[i] = Front(p)[i]
    BY <1>2, Stacked
  <2>2. r[Len(Front(p)) + 1] = p[k]
    BY <1>2, Stacked
  <2> HIDE DEF r, q
  <2>3. Len(r) = k /\ r[k] = p[k] /\ \A i \in 1 .. (k - 1) : r[i] = p[i]
    BY <1>1, <1>2, <2>1, <2>2
  <2> HIDE DEF k
  <2> QED BY <1>1, <2>3
<1>4. q[k].id \in Bases
  <2>1. k + 1 \in 1 .. Len(q) /\ k \in 1 .. ((k + 1) - 1)
    BY <1>1
  <2>2. Panel(q, fl, se)
    OBVIOUS
  <2> HIDE DEF q, k
  <2> QED BY <2>1, <2>2 DEF Panel, Shape
<1>5. Panel(r, fl, se)
  <2>1. Panel(q, fl, se)
    OBVIOUS
  <2> HIDE DEF q, r, k
  <2>2. ASSUME NEW j \in 1 .. k
        PROVE  /\ \A i \in 1 .. (j - 1) :
                    r[i].id \in Bases /\ (r[i].id \in HoldsAWallet => r[j].id \in Over)
               /\ r[j].id \in Over => \E i \in 1 .. (j - 1) : r[i].id \in Homes
               /\ r[j] \in Frame /\ Fits(r[j], fl, se)
    <3>1. j \in 1 .. (k + 1) /\ \A i \in 1 .. (j - 1) : i \in 1 .. k
      BY <1>1
    <3> QED BY <1>1, <1>3, <2>1, <3>1 DEF Panel, Shape
  <2> QED BY <1>3, <2>2 DEF Panel, Shape
<1> QED BY <1>1, <1>2, <1>3, <1>4, <1>5

LEMMA PanelOne ==
  ASSUME NEW n \in Frame, NEW fl, NEW se, Fits(n, fl, se), n.id \notin Over
  PROVE  <<>> \in Seq(Frame) /\ Panel(Append(<<>>, n), fl, se)
<1>1. <<>> \in Seq(Frame) /\ Len(Append(<<>>, n)) = 1 /\ Append(<<>>, n)[1] = n
  OBVIOUS
<1> QED BY <1>1 DEF Panel, Shape

\* Below a screen that holds no wallet there is none.
LEMMA PanelHolds ==
  ASSUME NEW p \in Seq(Frame), NEW s \in Frame, NEW fl, NEW se,
         Panel(Append(p, s), fl, se), s.id \notin HoldsAWallet
  PROVE  \A g : Panel(Append(p, s), g, se)
<1> DEFINE q == Append(p, s)
           k == Len(p) + 1
<1>1. k \in Nat \ {0} /\ Len(q) = k /\ q[k] = s
  BY Stacked
<1>2. Panel(q, fl, se)
  OBVIOUS
<1> HIDE DEF q, k
<1>3. ASSUME NEW i \in 1 .. k PROVE q[i].id \notin HoldsAWallet
  <2>1. CASE i = k
    BY <1>1, <2>1
  <2>2. CASE i # k
    <3>1. i \in 1 .. (k - 1) /\ k \in 1 .. k
      BY <1>1, <2>2
    <3> QED BY <1>1, <1>2, <3>1, Kinds DEF Panel, Shape
  <2> QED BY <2>1, <2>2
<1>4. ASSUME NEW g, NEW i \in 1 .. k PROVE Fits(q[i], g, se)
  <2>1. q[i].id \notin Homes /\ q[i].id \notin Signing
    BY <1>3, Kinds
  <2>2. Fits(q[i], fl, se)
    BY <1>1, <1>2 DEF Panel
  <2> QED BY <2>1, <2>2 DEF Fits
<1>5. \A g : Panel(q, g, se)
  BY <1>1, <1>2, <1>4 DEF Panel
<1> QED BY <1>5 DEF q

\* Above a screen that holds a wallet its home screen is in the stack.
LEMMA PanelHome ==
  ASSUME NEW p \in Seq(Frame), NEW s \in Frame, NEW fl, NEW se,
         Panel(Append(p, s), fl, se), s.id \in HoldsAWallet
  PROVE  \E i \in 1 .. (Len(p) + 1) : Append(p, s)[i].id \in Homes
<1> DEFINE q == Append(p, s)
           k == Len(p) + 1
<1>1. k \in Nat \ {0} /\ Len(q) = k /\ q[k] = s
  BY Stacked
<1>2. Panel(q, fl, se)
  OBVIOUS
<1> HIDE DEF q, k
<1>3. \E i \in 1 .. k : q[i].id \in Homes
  <2>1. k \in 1 .. k
    BY <1>1
  <2>2. CASE s.id \in Homes
    BY <1>1, <2>1, <2>2
  <2>3. CASE s.id \notin Homes
    <3>1. \E i \in 1 .. (k - 1) : q[i].id \in Homes
      BY <1>1, <1>2, <2>1, <2>3, Kinds DEF Panel, Shape
    <3> QED BY <1>1, <3>1
  <2> QED BY <2>2, <2>3
<1> QED BY <1>3 DEF q, k

LEMMA PanelFlow ==
  ASSUME NEW p, NEW fl, NEW g, NEW se, Panel(p, fl, se), g.wallet = fl.wallet,
         g.slot = fl.slot
  PROVE  Panel(p, g, se)
BY DEF Panel, Fits

-----------------------------------------------------------------------------
(* A pass that moves to a screen. *)

LEMMA Moves ==
  ASSUME IInv, NEW n \in Frame, NEW p \in Seq(Frame), NEW f \in FlowSet, Go(n, p, f),
         StoreAgrees', listed' \in Wallet \cup {None},
         ~session' => f = Closed /\ held' = {} /\ listed' = None,
         f.wallet = None => f = Closed,
         f.wallet # None =>
           /\ listed' = f.wallet /\ disk'[f.slot] = f.wallet
           /\ screen.id \in HoldsAWallet \/ n.id # screen.id,
         Panel(Append(p, n), f, session'), Shows(n, f)
  PROVE  IInv'
<1>1. screen' = n /\ prior' = p /\ flow' = FlowAfter(n, f) /\ Stack' = Append(p, n)
  BY DEF Go, Stack
<1>2. CASE n.id # screen.id /\ n.id \notin HoldsAWallet
  <2>1. flow' = Closed
    BY <1>1, <1>2 DEF FlowAfter
  <2>2. Panel(Stack', flow', session')
    BY <1>1, <1>2, PanelHolds
  <2>3. Shows(n, Closed)
    BY <1>2, ClosedTyped DEF Shows, HoldsAWallet
  <2>4. FlowAgrees'
    BY <2>1, ClosedTyped DEF FlowAgrees, IsOpen
  <2> QED BY <1>1, <2>1, <2>2, <2>3, <2>4 DEF IInv
<1>3. CASE n.id = screen.id \/ n.id \in HoldsAWallet
  <2>1. flow' = f
    BY <1>1, <1>3 DEF FlowAfter
  <2>2. FlowAgrees'
    BY <1>1, <1>3, <2>1 DEF FlowAgrees, IsOpen
  <2> QED BY <1>1, <2>1, <2>2 DEF IInv
<1> QED BY <1>2, <1>3

\* A flow with the same wallet.
Keeps(f) ==
  /\ f \in FlowSet /\ f.wallet = flow.wallet /\ f.slot = flow.slot
  /\ flow = Closed => f = Closed

\* A pass that leaves the store and the passphrases alone.
Quiet == UNCHANGED <<store, status, rows, held>> /\ listed' \in {listed, flow.wallet}

LEMMA QuietMoves ==
  ASSUME IInv, NEW n \in Frame, NEW p \in Seq(Frame), NEW f, Keeps(f), Go(n, p, f), Quiet,
         Panel(Append(p, n), flow, session), Shows(n, f)
  PROVE  IInv'
<1>1. UNCHANGED <<disk, pin, session, status, rows, held>> /\ StoreAgrees'
  BY DEF Quiet, store, IInv, StoreAgrees
<1>2. Panel(Append(p, n), f, session')
  BY <1>1, PanelFlow DEF Keeps
<1>3. /\ listed' \in Wallet \cup {None}
      /\ ~session' => f = Closed /\ held' = {} /\ listed' = None
  BY <1>1, ClosedTyped DEF IInv, FlowAgrees, Keeps, Quiet, FlowSet
<1>4. f.wallet # None => listed' = f.wallet /\ disk'[f.slot] = f.wallet /\ screen.id \in HoldsAWallet
  BY <1>1 DEF IInv, FlowAgrees, IsOpen, Keeps, Quiet
<1>5. f.wallet = None => f = Closed
  BY DEF IInv, FlowAgrees, IsOpen, Keeps
<1> QED BY <1>1, <1>2, <1>3, <1>4, <1>5, Moves DEF Keeps

LEMMA PushMoves ==
  ASSUME IInv, NEW n \in Frame, NEW f, Keeps(f), Push(n, f), Quiet,
         screen.id \in Bases, screen.id \in HoldsAWallet <=> n.id \in Over,
         Fits(n, flow, session), Shows(n, f)
  PROVE  IInv'
<1>1. prior \in Seq(Frame) /\ screen \in Frame /\ Panel(Append(prior, screen), flow, session)
  BY DEF IInv, Stack
<1>2. Panel(Append(Append(prior, screen), n), flow, session) /\ Append(prior, screen) \in Seq(Frame)
  BY <1>1, PanelPush, Stacked
<1> QED BY <1>2, QuietMoves DEF Push

LEMMA EnterMoves ==
  ASSUME IInv, NEW n \in Frame, NEW f, Keeps(f), Enter(n, f), Quiet,
         screen.id \in Over <=> n.id \in Over, Fits(n, flow, session), Shows(n, f)
  PROVE  IInv'
<1>1. prior \in Seq(Frame) /\ screen \in Frame /\ Panel(Append(prior, screen), flow, session)
  BY DEF IInv, Stack
<1>2. Panel(Append(prior, n), flow, session)
  BY <1>1, PanelEnter
<1> QED BY <1>1, <1>2, QuietMoves DEF Enter

LEMMA StayMoves ==
  ASSUME IInv, NEW f, Keeps(f), Stay(f), Quiet, Shows(screen, f)
  PROVE  IInv'
<1>1. prior \in Seq(Frame) /\ screen \in Frame /\ Panel(Append(prior, screen), flow, session)
  BY DEF IInv, Stack
<1> QED BY <1>1, QuietMoves DEF Stay

\* Where the stack ends.
LEMMA FloorFits ==
  ASSUME NEW st, NEW se, NEW fl, se <=> st = "unlocked", fl.signed = None
  PROVE  /\ FloorOf(st) \in Frame /\ FloorOf(st).id \notin HoldsAWallet
         /\ FloorOf(st).id \notin Over
         /\ Fits(FloorOf(st), fl, se) /\ Shows(FloorOf(st), fl)
<1>1. PICK id \in {"Wallets", "Lock", "Home"} :
        /\ FloorOf(st) = Plain(id)
        /\ id = "Wallets" <=> st = "unlocked"
  BY DEF FloorOf
<1>2. id \in Ids /\ id \notin HoldsAWallet
  BY DEF Ids, Bases, HoldsAWallet
<1>3. Plain(id) \in Frame /\ Plain(id).id = id /\ ~Plain(id).stored
  BY <1>2, PlainTyped
<1>4. se <=> id = "Wallets"
  BY <1>1
<1>5. Fits(Plain(id), fl, se)
  BY <1>2, <1>3, <1>4, Kinds DEF Fits
<1>6. Shows(Plain(id), fl)
  BY <1>2, <1>3 DEF Shows, HoldsAWallet
<1> QED BY <1>1, <1>2, <1>3, <1>5, <1>6, Kinds

LEMMA PopMoves ==
  ASSUME IInv, NEW f, Keeps(f), Pop(f), Quiet, f.signed = None
  PROVE  IInv'
<1>1. prior \in Seq(Frame) /\ screen \in Frame /\ Panel(Append(prior, screen), flow, session)
  BY DEF IInv, Stack
<1>2. CASE prior = <<>>
  <2>1. Go(FloorOf(status), <<>>, f)
    BY <1>2 DEF Pop, Below
  <2>2. session <=> status = "unlocked"
    BY DEF IInv, StoreAgrees
  <2>3. /\ FloorOf(status) \in Frame /\ FloorOf(status).id \notin HoldsAWallet
        /\ FloorOf(status).id \notin Over
        /\ Fits(FloorOf(status), f, session) /\ Shows(FloorOf(status), f)
    BY <2>2, FloorFits
  <2>4. Fits(FloorOf(status), flow, session)
    BY <2>3 DEF Fits, Keeps
  <2>5. <<>> \in Seq(Frame) /\ Panel(Append(<<>>, FloorOf(status)), flow, session)
    BY <2>3, <2>4, PanelOne
  <2> QED BY <2>1, <2>3, <2>5, QuietMoves
<1>3. CASE prior # <<>>
  <2>1. Go(Last(prior), Front(prior), f)
    BY <1>3 DEF Pop, Below
  <2>2. /\ Front(prior) \in Seq(Frame) /\ Last(prior) \in Frame /\ Last(prior).id \in Bases
        /\ Panel(Append(Front(prior), Last(prior)), flow, session)
    BY <1>1, <1>3, PanelPop
  <2>3. Shows(Last(prior), f)
    BY <2>2 DEF Shows, Bases
  <2> QED BY <2>1, <2>2, <2>3, QuietMoves
<1> QED BY <1>2, <1>3

-----------------------------------------------------------------------------
(* What goes with the screen that shows, and with the flow. *)

LEMMA OnTop ==
  ASSUME IInv
  PROVE  /\ Fits(screen, flow, session) /\ screen \in Frame
         /\ screen.id # "Deliver" => flow.signed = None
         /\ Keeps(flow)
         /\ session <=> status = "unlocked"
         /\ ~IsOpen => screen.id \notin Signing
<1>1. prior \in Seq(Frame) /\ screen \in Frame /\ Panel(Append(prior, screen), flow, session)
  BY DEF IInv, Stack
<1>2. /\ Len(Append(prior, screen)) = Len(prior) + 1 /\ Append(prior, screen)[Len(prior) + 1] = screen
      /\ Len(prior) \in Nat
  BY <1>1, Stacked
<1>3. Fits(screen, flow, session)
  BY <1>1, <1>2 DEF Panel
<1>4. screen.id # "Deliver" => flow.signed = None
  BY DEF IInv, Shows
<1>5. Keeps(flow)
  BY DEF IInv, FlowAgrees, Keeps
<1>6. session <=> status = "unlocked"
  BY DEF IInv, StoreAgrees
<1>7. ~IsOpen => screen.id \notin Signing
  BY <1>3 DEF Fits, IsOpen
<1> QED BY <1>1, <1>3, <1>4, <1>5, <1>6, <1>7

\* A screen that goes with everything.
Common(id) ==
  /\ id \in Ids /\ id \notin Homes /\ id \notin Signing
  /\ id \notin {"PassUnlock", "Erase", "Words", "Lock", "Pin"}

LEMMA CommonFits ==
  ASSUME IInv, NEW n \in Frame, Common(n.id), ~n.stored
  PROVE  Fits(n, flow, session)
BY DEF Common, Fits

LEMMA CommonShows ==
  ASSUME NEW n, NEW f, n.id \notin Signing, f.signed = None
  PROVE  Shows(n, f)
BY DEF Shows, Signing

\* A flow in which what was loaded, signed or is pending has changed.
LEMMA FlowChanged ==
  ASSUME IInv
  PROVE  /\ \A t \in Tx \cup {None} :
              /\ t # None => IsOpen
              => /\ Keeps([flow EXCEPT !.loaded = t])
                 /\ [flow EXCEPT !.loaded = t].signed = flow.signed
                 /\ [flow EXCEPT !.loaded = t].loaded = t
         /\ \A b \in BOOLEAN :
              /\ b => IsOpen
              => /\ Keeps([flow EXCEPT !.pending = b])
                 /\ [flow EXCEPT !.pending = b].signed = flow.signed
         /\ Keeps(Discarded(flow)) /\ Discarded(flow).signed = None
<1>1. flow \in FlowSet
  BY DEF IInv, FlowAgrees
<1>2. IsOpen => flow # Closed
  BY ClosedTyped DEF IsOpen
<1>3. flow = Closed => /\ [flow EXCEPT !.loaded = None] = Closed
                       /\ [flow EXCEPT !.pending = FALSE] = Closed
                       /\ [flow EXCEPT !.signed = None] = Closed
  BY <1>1, ClosedTyped DEF FlowSet, Closed
<1>4. ASSUME NEW t \in Tx \cup {None}, t # None => IsOpen
      PROVE  /\ Keeps([flow EXCEPT !.loaded = t])
             /\ [flow EXCEPT !.loaded = t].signed = flow.signed
             /\ [flow EXCEPT !.loaded = t].loaded = t
  BY <1>1, <1>2, <1>3, <1>4 DEF Keeps, FlowSet
<1>5. ASSUME NEW b \in BOOLEAN, b => IsOpen
      PROVE  /\ Keeps([flow EXCEPT !.pending = b])
             /\ [flow EXCEPT !.pending = b].signed = flow.signed
  <2>1. CASE b = FALSE
    BY <1>1, <1>3, <2>1 DEF Keeps, FlowSet
  <2>2. CASE b = TRUE
    BY <1>1, <1>2, <1>5, <2>2 DEF Keeps, FlowSet
  <2> QED BY <2>1, <2>2
<1>6. Keeps(Discarded(flow)) /\ Discarded(flow).signed = None
  BY <1>1, <1>3 DEF Keeps, FlowSet, Discarded
<1> QED BY <1>4, <1>5, <1>6

-----------------------------------------------------------------------------
(* The session begins and ends. *)

LEMMA Stays == ASSUME IInv, UNCHANGED <<store, panel, rows, listed, flow, held>> PROVE IInv'
BY DEF IInv, StoreAgrees, FlowAgrees, IsOpen, Stack, store, panel

LEMMA StartsOver ==
  ASSUME NEW n \in Frame, screen' = n, prior' = <<>>, flow' = Closed, StoreAgrees',
         listed' \in Wallet \cup {None}, ~session' => held' = {} /\ listed' = None,
         n.id \notin HoldsAWallet, Fits(n, Closed, session')
  PROVE  IInv'
<1>1. n.id \notin Over /\ n.id \notin Signing
  BY Kinds
<1>2. <<>> \in Seq(Frame) /\ Panel(Append(<<>>, n), Closed, session')
  BY <1>1, PanelOne
<1>3. Shows(n, Closed)
  BY <1>1, ClosedTyped, CommonShows
<1>4. FlowAgrees'
  BY ClosedTyped DEF FlowAgrees, IsOpen
<1> QED BY <1>2, <1>3, <1>4 DEF IInv, Stack

LEMMA NoRowsTyped == NoRows \in Rows
BY DEF NoRows, Rows

LEMMA Statuses ==
  ASSUME NEW p, NEW s, s => p
  PROVE  StoreStatus(p, s) = "unlocked" <=> s
BY DEF StoreStatus

LEMMA Initially == ASSUME Init PROVE IInv
<1>1. StoreAgrees
  BY NoRowsTyped DEF Init, StoreAgrees
<1>2. FlowAgrees
  BY ClosedTyped DEF Init, FlowAgrees, IsOpen
<1>3. "Home" \in Ids /\ "Home" \notin HoldsAWallet
  BY DEF Ids, HoldsAWallet
<1>4. Plain("Home") \in Frame /\ Plain("Home").id = "Home" /\ ~Plain("Home").stored
  BY <1>3, PlainTyped
<1>5. Fits(Plain("Home"), Closed, FALSE) /\ Plain("Home").id \notin Over
  BY <1>3, <1>4, Kinds, ClosedTyped DEF Fits
<1>6. <<>> \in Seq(Frame) /\ Panel(Append(<<>>, Plain("Home")), Closed, FALSE)
  BY <1>4, <1>5, PanelOne
<1>7. Shows(Plain("Home"), Closed)
  BY <1>3, <1>4, Kinds, ClosedTyped, CommonShows
<1> QED BY <1>1, <1>2, <1>4, <1>6, <1>7 DEF Init, IInv, Stack

LEMMA BootKeeps == ASSUME IInv, Boot PROVE IInv'
<1>1. /\ session' = FALSE /\ status' = StoreStatus(pin, FALSE) /\ screen' = FloorOf(status')
      /\ prior' = <<>> /\ rows' = NoRows /\ listed' = None /\ flow' = Closed /\ held' = {}
      /\ disk' = disk /\ pin' = pin
  BY DEF Boot
<1>2. status' # "unlocked"
  BY <1>1, Statuses
<1>3. StoreAgrees'
  BY <1>1, <1>2, NoRowsTyped DEF IInv, StoreAgrees
<1>4. /\ FloorOf(status') \in Frame /\ FloorOf(status').id \notin HoldsAWallet
      /\ Fits(FloorOf(status'), Closed, session')
  BY <1>1, <1>2, ClosedTyped, FloorFits
<1> QED BY <1>1, <1>3, <1>4, StartsOver

LEMMA LockedKeeps == ASSUME IInv, session, Locked PROVE IInv'
<1>1. pin
  BY DEF IInv, StoreAgrees
<1>2. /\ session' = FALSE /\ flow' = Closed /\ held' = {} /\ status' = StoreStatus(pin, FALSE)
      /\ rows' = NoRows /\ listed' = None /\ screen' = Plain("Lock") /\ prior' = <<>>
      /\ disk' = disk /\ pin' = pin
  BY <1>1 DEF Locked
<1>3. status' # "unlocked"
  BY <1>2, Statuses
<1>4. StoreAgrees'
  BY <1>2, <1>3, NoRowsTyped DEF IInv, StoreAgrees
<1>5. "Lock" \in Ids /\ "Lock" \notin HoldsAWallet /\ "Lock" \notin Homes \cup Signing
  BY DEF Ids, HoldsAWallet, Homes, Signing
<1>6. Plain("Lock") \in Frame /\ Plain("Lock").id = "Lock" /\ ~Plain("Lock").stored
  BY <1>5, PlainTyped
<1>7. Fits(Plain("Lock"), Closed, session')
  BY <1>2, <1>5, <1>6 DEF Fits
<1> QED BY <1>2, <1>4, <1>5, <1>6, <1>7, StartsOver

LEMMA LockKeeps == ASSUME IInv, LockSession \/ Pass \/ Touch \/ ActWords PROVE IInv'
<1>1. CASE LockSession
  BY <1>1, LockedKeeps, OnTop DEF LockSession
<1>2. CASE Pass
  BY <1>2, LockedKeeps, Stays DEF Pass
<1>3. CASE Touch
  BY <1>3, Stays DEF Touch
<1>4. CASE ActWords
  BY <1>4, Stays DEF ActWords, Stay, Go, FlowAfter, panel
<1> QED BY <1>1, <1>2, <1>3, <1>4

\* On the screens of a locked device.
LEMMA OnLock ==
  ASSUME IInv, screen.id \in {"Lock", "Pin"}
  PROVE  /\ ~session /\ flow = Closed /\ held = {} /\ listed = None /\ rows = NoRows
         /\ screen.id \notin HoldsAWallet
<1>1. ~session
  BY OnTop DEF Fits
<1> QED BY <1>1 DEF IInv, FlowAgrees, StoreAgrees, HoldsAWallet

LEMMA LockScreenKeeps == ASSUME IInv, LockWake \/ PinBack PROVE IInv'
<1>1. PICK id \in {"Lock", "Pin"} : Enter(Plain(id), flow)
  BY DEF LockWake, PinBack
<1>2. screen.id \in {"Lock", "Pin"} /\ Quiet
  BY DEF LockWake, PinBack, On, Quiet
<1>3. ~session /\ Keeps(flow) /\ flow.signed = None
  BY <1>2, OnLock, OnTop, ClosedTyped
<1>4. id \in Ids /\ id \notin HoldsAWallet /\ screen.id \notin HoldsAWallet
  BY <1>2 DEF Ids, HoldsAWallet
<1>5. Plain(id) \in Frame /\ Plain(id).id = id /\ ~Plain(id).stored
  BY <1>4, PlainTyped
<1>6. Fits(Plain(id), flow, session)
  BY <1>3, <1>4, <1>5, Kinds DEF Fits
<1>7. Shows(Plain(id), flow) /\ (screen.id \in Over <=> Plain(id).id \in Over)
  BY <1>3, <1>4, <1>5, Kinds, CommonShows
<1> QED BY <1>1, <1>2, <1>3, <1>5, <1>6, <1>7, EnterMoves

\* A stack that is left behind as it is started over.
LEMMA ResetMoves ==
  ASSUME IInv, NEW id \in {"Wallets", "Home"}, Reset(Plain(id), flow), flow = Closed,
         StoreAgrees', listed' = None, ~session' => held' = {}
  PROVE  IInv'
<1>1. id \in Ids /\ id \notin HoldsAWallet /\ id \notin {"Lock", "Pin", "PassUnlock", "Erase", "Words"}
  BY DEF Ids, Bases, HoldsAWallet
<1>2. Plain(id) \in Frame /\ Plain(id).id = id /\ ~Plain(id).stored
  BY <1>1, PlainTyped
<1>3. Fits(Plain(id), Closed, session')
  BY <1>1, <1>2, Kinds, ClosedTyped DEF Fits
<1>4. screen' = Plain(id) /\ prior' = <<>> /\ flow' = Closed
  BY DEF Reset, Go, FlowAfter
<1> QED BY <1>1, <1>2, <1>3, <1>4, StartsOver

LEMMA PinKeeps == ASSUME IInv, Unsealed \/ Wiped \/ Unreadable PROVE IInv'
<1>1. screen.id = "Pin"
  BY DEF Unsealed, Wiped, Unreadable, On
<1>2. ~session /\ flow = Closed /\ held = {} /\ listed = None /\ rows = NoRows
  BY <1>1, OnLock
<1>3. CASE Unsealed
  <2>1. StoreAgrees'
    BY <1>3 DEF Unsealed, IInv, StoreAgrees
  <2> QED BY <1>2, <1>3, <2>1, ResetMoves DEF Unsealed
<1>4. CASE Wiped
  <2>1. StoreAgrees'
    BY <1>2, <1>4, NoRowsTyped DEF Wiped, IInv, StoreAgrees
  <2> QED BY <1>2, <1>4, <2>1, ResetMoves DEF Wiped
<1>5. CASE Unreadable
  <2>1. StoreAgrees'
    BY <1>2, <1>5 DEF Unreadable, IInv, StoreAgrees, store
  <2> QED BY <1>2, <1>5, <2>1, ResetMoves DEF Unreadable, store
<1> QED BY <1>3, <1>4, <1>5

\* A screen below the one that shows.
LEMMA Beneath ==
  ASSUME IInv, prior # <<>>
  PROVE  LET s == Last(prior)
         IN /\ s \in Frame /\ s.id \in Bases /\ Fits(s, flow, session)
            /\ screen.id \notin HoldsAWallet => s.id \notin HoldsAWallet
<1>1. prior \in Seq(Frame) /\ screen \in Frame /\ Panel(Append(prior, screen), flow, session)
  BY DEF IInv, Stack
<1>2. /\ Front(prior) \in Seq(Frame) /\ Last(prior) \in Frame /\ Last(prior).id \in Bases
      /\ Panel(Append(Front(prior), Last(prior)), flow, session)
  BY <1>1, PanelPop
<1>3. Fits(Last(prior), flow, session)
  <2>1. /\ Len(Append(Front(prior), Last(prior))) = Len(Front(prior)) + 1
        /\ Append(Front(prior), Last(prior))[Len(Front(prior)) + 1] = Last(prior)
        /\ Len(Front(prior)) \in Nat
    BY <1>2, Stacked
  <2> QED BY <1>2, <2>1 DEF Panel
<1>4. screen.id \notin HoldsAWallet => Last(prior).id \notin HoldsAWallet
  <2> DEFINE q == Append(prior, screen)
             k == Len(prior)
  <2>1. Len(prior) \in Nat /\ Len(prior) # 0
    BY <1>1
  <2>2. Len(q) = k + 1 /\ q[k + 1] = screen /\ q[k] = prior[k] /\ k \in Nat \ {0}
    BY <1>1, <2>1, Stacked
  <2>3. Last(prior) = prior[k]
    BY DEF Last
  <2>4. Panel(q, flow, session)
    BY <1>1
  <2> HIDE DEF q, k
  <2>5. k + 1 \in 1 .. Len(q) /\ k \in 1 .. ((k + 1) - 1)
    BY <2>2
  <2> QED BY <2>2, <2>3, <2>4, <2>5, Kinds DEF Panel, Shape
<1> QED BY <1>2, <1>3, <1>4

\* The device gets its PIN: the screens below stay, and go with a session too.
LEMMA PanelOpens ==
  ASSUME NEW p \in Seq(Frame), NEW s \in Frame, NEW fl, Panel(Append(p, s), fl, FALSE),
         s.id \notin {"Lock", "Pin"}
  PROVE  Panel(Append(p, s), fl, TRUE)
<1> DEFINE q == Append(p, s)
           k == Len(p) + 1
<1>1. k \in Nat \ {0} /\ Len(q) = k /\ q[k] = s
  BY Stacked
<1>2. Panel(q, fl, FALSE)
  OBVIOUS
<1> HIDE DEF q, k
<1>3. ASSUME NEW i \in 1 .. k PROVE Fits(q[i], fl, TRUE)
  <2>1. CASE i = k
    BY <1>1, <1>2, <2>1 DEF Panel, Fits
  <2>2. CASE i # k
    <3>1. i \in 1 .. (k - 1) /\ k \in 1 .. k
      BY <1>1, <2>2
    <3>2. q[i].id \in Bases
      BY <1>1, <1>2, <3>1 DEF Panel, Shape
    <3> QED BY <1>1, <1>2, <3>2 DEF Panel, Fits, Bases
  <2> QED BY <2>1, <2>2
<1>4. Panel(q, fl, TRUE)
  BY <1>1, <1>2, <1>3 DEF Panel
<1> QED BY <1>4 DEF q

LEMMA SetPinKeeps == ASSUME IInv, SetPin PROVE IInv'
<1>1. screen.id = "SetPin" /\ UNCHANGED <<disk, rows, listed, held>>
  BY DEF SetPin, On, store
<1>2. /\ screen.id \notin HoldsAWallet /\ screen.id \notin Over \cup Signing
      /\ flow.wallet = None /\ flow = Closed
  BY <1>1, Kinds DEF HoldsAWallet, IInv, FlowAgrees, IsOpen
<1>3. Fits(screen, flow, session) /\ screen \in Frame /\ flow.signed = None /\ Keeps(flow)
  BY <1>1, OnTop
<1>4. CASE pin
  <2>1. UNCHANGED <<pin, session>> /\ status' = StoreStatus(pin, session) /\ Stay(flow)
    BY <1>4 DEF SetPin, store
  <2>2. StoreAgrees'
    <3>1. StoreAgrees
      BY DEF IInv
    <3>2. StoreStatus(pin, session) = "unlocked" <=> session
      BY <1>4 DEF StoreStatus
    <3>3. status' = "unlocked" <=> session
      BY <2>1, <3>2
    <3> QED BY <1>1, <2>1, <3>1, <3>3 DEF StoreAgrees
  <2>3. Shows(screen, flow) /\ prior \in Seq(Frame) /\ Panel(Append(prior, screen), flow, session')
    BY <2>1 DEF IInv, Stack
  <2>4. Go(screen, prior, flow) /\ flow \in FlowSet
    BY <2>1 DEF Stay, IInv, FlowAgrees
  <2>5. /\ listed' \in Wallet \cup {None}
        /\ ~session' => flow = Closed /\ held' = {} /\ listed' = None
    BY <1>1, <2>1 DEF IInv, FlowAgrees
  <2> QED BY <1>2, <1>3, <2>2, <2>3, <2>4, <2>5, Moves
<1>5. CASE ~pin
  <2>1. ~session /\ flow = Closed /\ held = {} /\ listed = None /\ rows = NoRows /\ disk = NoRows
    BY <1>5 DEF IInv, StoreAgrees, FlowAgrees
  <2>2. pin' = TRUE /\ session' = TRUE /\ status' = "unlocked"
    BY <1>5 DEF SetPin
  <2>3. StoreAgrees'
    BY <1>1, <2>1, <2>2, NoRowsTyped DEF StoreAgrees
  <2>4. Closed \in FlowSet /\ Closed.wallet = None /\ listed' = None
    BY <1>1, <2>1, ClosedTyped
  <2>5. CASE Below("unlocked").id = "Fork"
    <3> DEFINE n == Naming("Name", None, Below("unlocked").wallet)
    <3>1. Go(n, prior, Closed)
      BY <1>5, <2>1, <2>5 DEF SetPin
    <3>2. "Name" \in Ids /\ "Name" \notin HoldsAWallet /\ Common("Name")
      BY DEF Ids, HoldsAWallet, Common, Homes, Signing
    <3>3. prior # <<>>
      BY <2>5, PlainTyped DEF Below, FloorOf, Ids, Bases
    <3>4. Below("unlocked").wallet \in Wallet \cup {None}
      BY <3>3, Beneath DEF Below, Frame
    <3>5. n \in Frame /\ n.id = "Name" /\ ~n.stored
      <4>1. None \in Slots \cup {None}
        OBVIOUS
      <4> QED BY <3>2, <3>4, <4>1 DEF Naming, Plain, Frame
    <3> HIDE DEF n
    <3>6. Fits(n, flow, session) /\ Shows(n, Closed)
      BY <3>2, <3>5, ClosedTyped, CommonFits, CommonShows DEF Common
    <3>7. /\ prior \in Seq(Frame) /\ Panel(Append(prior, screen), flow, FALSE)
          /\ Fits(n, flow, FALSE)
      BY <2>1, <3>6 DEF IInv, Stack, Panel, Fits
    <3>8. Panel(Append(prior, n), flow, FALSE)
      BY <1>2, <1>3, <3>2, <3>5, <3>7, Kinds, PanelEnter
    <3>9. Panel(Append(prior, n), Closed, session')
      BY <2>1, <2>2, <3>5, <3>7, <3>8, PanelOpens
    <3> QED BY <2>2, <2>3, <2>4, <3>1, <3>5, <3>6, <3>7, <3>9, Moves
  <2>6. CASE Below("unlocked").id # "Fork"
    <3> DEFINE n == Below("unlocked")
    <3>1. Go(n, <<>>, Closed)
      BY <1>5, <2>1, <2>6 DEF SetPin
    <3>2. /\ n \in Frame /\ n.id \notin HoldsAWallet /\ Fits(n, Closed, TRUE) /\ Shows(n, Closed)
      <4>1. CASE prior = <<>>
        <5>1. n = FloorOf("unlocked")
          BY <4>1 DEF Below
        <5> QED BY <5>1, ClosedTyped, FloorFits
      <4>2. CASE prior # <<>>
        <5>1. n \in Frame /\ n.id \in Bases /\ Fits(n, flow, session) /\ n.id \notin HoldsAWallet
          BY <1>2, <4>2, Beneath DEF Below
        <5>2. Fits(n, Closed, TRUE)
          BY <2>1, <5>1 DEF Fits, Bases
        <5>3. Shows(n, Closed)
          BY <5>1, ClosedTyped, Kinds, CommonShows
        <5> QED BY <5>1, <5>2, <5>3
      <4> QED BY <4>1, <4>2
    <3> HIDE DEF n
    <3>3. <<>> \in Seq(Frame) /\ Panel(Append(<<>>, n), Closed, session')
      BY <2>2, <3>2, Kinds, PanelOne
    <3> QED BY <2>2, <2>3, <2>4, <3>1, <3>2, <3>3, Moves
  <2> QED BY <2>5, <2>6
<1> QED BY <1>4, <1>5

-----------------------------------------------------------------------------
(* Screens that go with any wallet, or none. *)

LEMMA CommonIds ==
  /\ \A id \in {"Home", "Wallets", "Settings", "Make", "Fork", "Name", "SetPin", "Receive",
                "Refusal", "MultisigList", "MultisigImport", "MultisigDetail"} :
       Common(id) /\ id \in Ids /\ id \notin Signing
  /\ \A id \in {"Receive", "Refusal", "MultisigList", "MultisigImport", "MultisigDetail"} :
       id \in Over /\ id \in HoldsAWallet
  /\ \A id \in {"Home", "Wallets", "Settings", "Make", "Fork", "Name", "SetPin", "Erase", "Words",
                "PassUnlock"} :
       id \notin HoldsAWallet /\ id \notin Over /\ id \in Ids /\ id \notin Signing
       /\ id \notin Homes
  /\ \A id \in {"WalletHome", "Schemes"} :
       id \in HoldsAWallet /\ id \notin Over /\ id \in Ids /\ id \notin Signing /\ id \in Homes
  /\ \A id \in Signing : id \in Over /\ id \in HoldsAWallet /\ id \in Ids
BY DEF Common, Ids, Bases, HoldsAWallet, Over, Homes, Signing

\* A frame of a kind that goes with everything is shown over, or instead of, this one.
LEMMA CommonMoves ==
  ASSUME IInv, NEW n \in Frame, Common(n.id), ~n.stored, NEW f, Keeps(f), f.signed = None,
         Quiet,
         \/ /\ Push(n, f) /\ screen.id \in Bases
            /\ screen.id \in HoldsAWallet <=> n.id \in Over
         \/ Enter(n, f) /\ (screen.id \in Over <=> n.id \in Over)
  PROVE  IInv'
<1>1. Fits(n, flow, session) /\ Shows(n, f)
  BY CommonFits, CommonShows DEF Common
<1> QED BY <1>1, PushMoves, EnterMoves

LEMMA MakeKeeps == ASSUME IInv, MakeFromHome \/ MakeFromWallets \/ MakeFromWallet PROVE IInv'
<1>1. Plain("Make") \in Frame /\ Plain("Make").id = "Make" /\ ~Plain("Make").stored
  BY PlainTyped, CommonIds
<1>2. Quiet
  BY DEF MakeFromHome, MakeFromWallets, MakeFromWallet, Quiet
<1>3. \/ screen.id \in {"Home", "WalletHome"} /\ Enter(Plain("Make"), flow)
      \/ screen.id = "Wallets" /\ Push(Plain("Make"), flow)
  BY DEF MakeFromHome, MakeFromWallets, MakeFromWallet, On
<1>4. Keeps(flow) /\ flow.signed = None
  BY <1>3, OnTop
<1>5. "Wallets" \in Bases
  BY DEF Bases
<1> QED BY <1>1, <1>2, <1>3, <1>4, <1>5, CommonIds, CommonMoves

LEMMA MadeKeeps == ASSUME IInv, NEW w \in Wallet, Made(w) PROVE IInv'
<1> DEFINE n == Naming("Fork", None, w)
<1>1. n \in Frame /\ n.id = "Fork" /\ ~n.stored
  <2>1. "Fork" \in Ids
    BY DEF Ids, Bases
  <2>2. None \in Slots \cup {None} /\ w \in Wallet \cup {None}
    OBVIOUS
  <2> QED BY <2>1, <2>2 DEF Naming, Plain, Frame
<1>2. Quiet /\ screen.id = "Make" /\ Push(n, flow)
  BY DEF Made, Quiet, On
<1> HIDE DEF n
<1>3. Keeps(flow) /\ flow.signed = None
  BY <1>2, OnTop
<1>4. "Make" \in Bases
  BY DEF Bases
<1> QED BY <1>1, <1>2, <1>3, <1>4, CommonIds, CommonMoves

LEMMA UseOnceKeeps == ASSUME IInv, UseOnce PROVE IInv'
<1> DEFINE n == WalletHome(0, screen.wallet, FALSE, TRUE)
<1>1. screen.id = "Fork" /\ Quiet /\ Enter(n, flow)
  BY DEF UseOnce, On, Quiet
<1>2. screen \in Frame /\ Keeps(flow) /\ flow.signed = None
  BY <1>1, OnTop
<1>3. n \in Frame /\ n.id = "WalletHome" /\ ~n.stored
  <2>1. screen.wallet \in Wallet \cup {None}
    BY <1>2 DEF Frame
  <2> QED BY <2>1, HomeTyped, DeviceAssumption DEF HomeOf
<1> HIDE DEF n
<1>4. flow.wallet = None
  BY <1>1, CommonIds DEF IInv, FlowAgrees, IsOpen
<1>5. Fits(n, flow, session)
  BY <1>3, <1>4, CommonIds DEF Fits
<1>6. Shows(n, flow)
  BY <1>2, <1>3, CommonIds, CommonShows
<1> QED BY <1>1, <1>2, <1>3, <1>5, <1>6, CommonIds, EnterMoves

LEMMA SaveKeeps == ASSUME IInv, SaveToDevice PROVE IInv'
<1>1. screen.id = "Fork" /\ Quiet
  BY DEF SaveToDevice, On, Quiet
<1>2. screen \in Frame /\ Keeps(flow) /\ flow.signed = None
  BY <1>1, OnTop
<1>3. PICK n : Push(n, flow) /\ n \in {Naming("Name", None, screen.wallet), Plain("SetPin")}
  BY DEF SaveToDevice
<1>4. n \in Frame /\ n.id \in {"Name", "SetPin"} /\ ~n.stored
  <2>1. screen.wallet \in Wallet \cup {None}
    BY <1>2 DEF Frame
  <2>2. CASE n = Plain("SetPin")
    BY <2>2, PlainTyped, CommonIds
  <2>3. CASE n = Naming("Name", None, screen.wallet)
    <3>1. "Name" \in Ids /\ None \in Slots \cup {None}
      BY DEF Ids
    <3> QED BY <2>1, <2>3, <3>1 DEF Naming, Plain, Frame
  <2> QED BY <1>3, <2>2, <2>3
<1>5. "Fork" \in Bases
  BY DEF Bases
<1> QED BY <1>1, <1>2, <1>3, <1>4, <1>5, CommonIds, CommonMoves

LEMMA ConfirmSaveKeeps == ASSUME IInv, ConfirmSave PROVE IInv'
<1> DEFINE n == SavedAs(Min(Empty), screen.wallet)
           d == [disk EXCEPT ![Min(Empty)] = screen.wallet]
<1>1. screen.id = "Name" /\ UNCHANGED <<pin, session, listed>>
  BY DEF ConfirmSave, On
<1>2. /\ screen \in Frame /\ Keeps(flow) /\ flow.signed = None
      /\ flow.wallet = None /\ flow = Closed
  BY <1>1, OnTop, CommonIds DEF IInv, FlowAgrees, IsOpen
<1>3. CASE session /\ Empty # {}
  <2>1. disk' = d /\ rows' = d /\ status' = "unlocked" /\ Reset(n, flow)
    BY <1>3 DEF ConfirmSave
  <2>2. d \in Rows
    BY <1>2 DEF IInv, StoreAgrees, Rows, Frame
  <2>3. n \in Frame /\ n.id = "WalletHome" /\ n.stored /\ ~n.keys /\ n.slot = 0
    <3>1. screen.wallet \in Wallet \cup {None}
      BY <1>2 DEF Frame
    <3> QED BY <3>1, HomeTyped, DeviceAssumption DEF SavedAs, HomeOf
  <2> HIDE DEF n, d
  <2>4. StoreAgrees'
    BY <1>1, <1>3, <2>1, <2>2 DEF IInv, StoreAgrees
  <2>5. Fits(n, flow, session') /\ n.id \notin Over
    BY <1>1, <1>2, <1>3, <2>3, CommonIds, DeviceAssumption DEF Fits
  <2>6. Shows(n, flow)
    BY <1>2, <2>3, CommonIds, CommonShows
  <2>7. <<>> \in Seq(Frame) /\ Panel(Append(<<>>, n), flow, session')
    BY <2>3, <2>5, PanelOne
  <2>8. flow \in FlowSet /\ listed' \in Wallet \cup {None} /\ Go(n, <<>>, flow)
    BY <1>1, <2>1 DEF IInv, FlowAgrees, Reset
  <2> QED BY <1>1, <1>2, <1>3, <2>3, <2>4, <2>6, <2>7, <2>8, Moves
<1>4. CASE ~(session /\ Empty # {})
  <2>1. status' = StoreStatus(pin, session) /\ Stay(flow) /\ UNCHANGED <<disk, rows, held>>
    BY <1>4 DEF ConfirmSave
  <2>2. StoreAgrees'
    BY <1>1, <2>1, Statuses DEF IInv, StoreAgrees
  <2>3. Shows(screen, flow) /\ prior \in Seq(Frame) /\ Panel(Append(prior, screen), flow, session')
    BY <1>1 DEF IInv, Stack
  <2>4. Go(screen, prior, flow) /\ flow \in FlowSet
    BY <2>1 DEF Stay, IInv, FlowAgrees
  <2>5. /\ listed' \in Wallet \cup {None}
        /\ ~session' => flow = Closed /\ held' = {} /\ listed' = None
    BY <1>1, <2>1 DEF IInv, FlowAgrees
  <2> QED BY <1>2, <2>2, <2>3, <2>4, <2>5, Moves
<1> QED BY <1>3, <1>4

-----------------------------------------------------------------------------
(* A wallet is opened. *)

LEMMA OpenWalletKeeps == ASSUME IInv, NEW x \in Slots, OpenWallet(x) PROVE IInv'
<1> DEFINE w == disk[x]
<1>1. screen.id = "Wallets" /\ rows[x] # None /\ w # None
      /\ UNCHANGED <<store, status, rows, held>>
  BY DEF OpenWallet, On
<1>2. screen \in Frame /\ Keeps(flow) /\ flow.signed = None /\ flow.wallet = None
  BY <1>1, OnTop, CommonIds DEF IInv, FlowAgrees, IsOpen
<1>3. session /\ w \in Wallet /\ disk \in Rows /\ UNCHANGED <<disk, pin, session>>
  <2>1. session
    BY <1>1 DEF IInv, StoreAgrees, NoRows
  <2> QED BY <1>1, <2>1 DEF IInv, StoreAgrees, Rows, store
<1>4. "Wallets" \in Bases
  BY DEF Bases
<1>5. CASE w \in Hidden /\ x \notin held
  <2> DEFINE n == Naming("PassUnlock", x, w)
  <2>1. Push(n, flow) /\ Quiet
    BY <1>5 DEF OpenWallet, Quiet
  <2>2. n \in Frame /\ n.id = "PassUnlock" /\ n.slot = x /\ ~n.stored
    <3>1. "PassUnlock" \in Ids /\ x \in Slots \cup {None} /\ w \in Wallet \cup {None}
      BY <1>3 DEF Ids
    <3> QED BY <3>1, NamingTyped
  <2> HIDE DEF n
  <2>3. Fits(n, flow, session)
    BY <1>3, <2>2, CommonIds DEF Fits
  <2>4. Shows(n, flow)
    BY <1>2, <2>2, CommonIds, CommonShows
  <2> QED BY <1>1, <1>2, <1>4, <2>1, <2>2, <2>3, <2>4, CommonIds, PushMoves
<1>6. CASE ~(w \in Hidden /\ x \notin held)
  <2> DEFINE n == WalletHome(x, w, TRUE, TRUE)
             f == Opened(x, w)
  <2>1. Push(n, f) /\ listed' = w
    BY <1>6 DEF OpenWallet, ListedFor
  <2>2. /\ n \in Frame /\ n.id = "WalletHome" /\ n.stored /\ n.keys
        /\ n.slot = x /\ n.wallet = w
    <3>1. x \in Slots \cup {None} /\ w \in Wallet \cup {None}
      BY <1>3
    <3>2. /\ HomeOf(WalletHome(x, w, TRUE, TRUE), x, w)
          /\ WalletHome(x, w, TRUE, TRUE).stored /\ WalletHome(x, w, TRUE, TRUE).keys
      BY <3>1, HomeTyped
    <3> QED BY <3>2 DEF HomeOf
  <2>3. f \in FlowSet /\ f.wallet = w /\ f.slot = x /\ f.signed = None
    BY <1>3, ClosedTyped DEF Opened, FlowSet
  <2> HIDE DEF n, f
  <2>4. Fits(n, f, session) /\ Shows(n, f)
    BY <1>1, <1>3, <2>2, <2>3, CommonIds, CommonShows DEF Fits
  <2>5. prior \in Seq(Frame) /\ Panel(Append(prior, screen), f, session)
    <3>1. prior \in Seq(Frame) /\ Panel(Append(prior, screen), flow, session)
      BY DEF IInv, Stack
    <3> QED BY <1>1, <1>2, <3>1, CommonIds, PanelHolds
  <2>6. Panel(Append(Append(prior, screen), n), f, session)
        /\ Append(prior, screen) \in Seq(Frame)
    BY <1>1, <1>2, <1>4, <2>2, <2>4, <2>5, CommonIds, PanelPush, Stacked
  <2>7. StoreAgrees'
    BY <1>1, <1>3 DEF IInv, StoreAgrees
  <2>8. Go(n, Append(prior, screen), f)
    BY <2>1 DEF Push
  <2> QED BY <1>1, <1>3, <2>1, <2>2, <2>3, <2>4, <2>6, <2>7, <2>8, CommonIds, Moves
<1> QED BY <1>5, <1>6

LEMMA UnlockKeeps == ASSUME IInv, UnlockWallet PROVE IInv'
<1> DEFINE x == screen.slot
           w == disk[x]
           n == WalletHome(x, w, TRUE, TRUE)
           f == Opened(x, w)
<1>1. screen.id = "PassUnlock" /\ w # None /\ UNCHANGED <<store, status, rows>>
      /\ Enter(n, f) /\ listed' = w
  BY DEF UnlockWallet, On, ListedFor
<1>2. screen \in Frame /\ Fits(screen, flow, session)
  BY OnTop
<1>3. session /\ x \in Slots
  BY <1>1, <1>2 DEF Fits
<1>4. w \in Wallet /\ UNCHANGED <<disk, pin, session>>
  BY <1>1, <1>3 DEF IInv, StoreAgrees, Rows, store
<1>5. /\ n \in Frame /\ n.id = "WalletHome" /\ n.stored /\ n.keys
      /\ n.slot = x /\ n.wallet = w
  <2>1. x \in Slots \cup {None} /\ w \in Wallet \cup {None}
    BY <1>3, <1>4
  <2>2. /\ HomeOf(WalletHome(x, w, TRUE, TRUE), x, w)
        /\ WalletHome(x, w, TRUE, TRUE).stored /\ WalletHome(x, w, TRUE, TRUE).keys
    BY <2>1, HomeTyped
  <2> QED BY <2>2 DEF HomeOf
<1>6. f \in FlowSet /\ f.wallet = w /\ f.slot = x /\ f.signed = None
  BY <1>3, <1>4, ClosedTyped DEF Opened, FlowSet
<1> HIDE DEF n, f, x, w
<1>7. Fits(n, f, session) /\ Shows(n, f)
  BY <1>1, <1>3, <1>5, <1>6, CommonIds, CommonShows DEF Fits
<1>8. prior \in Seq(Frame) /\ Panel(Append(prior, screen), f, session)
  <2>1. prior \in Seq(Frame) /\ Panel(Append(prior, screen), flow, session)
    BY DEF IInv, Stack
  <2> QED BY <1>1, <1>2, <2>1, CommonIds, PanelHolds
<1>9. Panel(Append(prior, n), f, session)
  BY <1>1, <1>2, <1>5, <1>7, <1>8, CommonIds, PanelEnter
<1>10. StoreAgrees'
  BY <1>1, <1>4 DEF IInv, StoreAgrees
<1>11. Go(n, prior, f)
  BY <1>1 DEF Enter
<1>12. disk'[f.slot] = f.wallet
  BY <1>4, <1>6 DEF w
<1> QED BY <1>1, <1>3, <1>4, <1>5, <1>6, <1>7, <1>8, <1>9, <1>10, <1>11, <1>12, CommonIds, Moves

\* The screen that shows with one field changed.
LEMMA ScreenChanged ==
  ASSUME IInv, NEW id \in Ids
  PROVE  LET n == [screen EXCEPT !.id = id]
             m == [screen EXCEPT !.busy = TRUE]
         IN /\ n \in Frame /\ n.id = id /\ n.stored = screen.stored /\ n.keys = screen.keys
            /\ n.slot = screen.slot /\ n.wallet = screen.wallet
            /\ m \in Frame /\ m.id = screen.id /\ m.stored = screen.stored
            /\ m.keys = screen.keys /\ m.slot = screen.slot /\ m.wallet = screen.wallet
BY OnTop DEF Frame

LEMMA UnlockFailsKeeps == ASSUME IInv, UnlockFails PROVE IInv'
<1> DEFINE n == [screen EXCEPT !.busy = TRUE]
<1>1. screen.id = "PassUnlock" /\ Enter(n, flow) /\ Quiet
  BY DEF UnlockFails, On, Quiet
<1>2. Fits(screen, flow, session) /\ Keeps(flow) /\ flow.signed = None
  BY <1>1, OnTop
<1>3. /\ n \in Frame /\ n.id = screen.id /\ n.stored = screen.stored
      /\ n.keys = screen.keys /\ n.slot = screen.slot /\ n.wallet = screen.wallet
  <2>1. screen.id \in Ids
    BY <1>1 DEF Ids
  <2> QED BY <2>1, ScreenChanged
<1> HIDE DEF n
<1>4. Fits(n, flow, session)
  BY <1>2, <1>3 DEF Fits
<1>5. Shows(n, flow)
  BY <1>1, <1>2, <1>3, CommonIds, CommonShows
<1> QED BY <1>1, <1>2, <1>3, <1>4, <1>5, EnterMoves

\* Between the two faces of the home screen.
LEMMA FacesKeep == ASSUME IInv, Export \/ SchemesBack PROVE IInv'
<1>1. PICK id \in {"WalletHome", "Schemes"} : Enter([screen EXCEPT !.id = id], flow)
  BY DEF Export, SchemesBack
<1> DEFINE n == [screen EXCEPT !.id = id]
<1>2. screen.id \in {"WalletHome", "Schemes"} /\ Quiet
  BY DEF Export, SchemesBack, On, Quiet
<1>3. Fits(screen, flow, session) /\ Keeps(flow) /\ flow.signed = None
  BY <1>2, OnTop
<1>4. id \in Ids /\ id \in Homes /\ screen.id \in Homes
  BY <1>2 DEF Ids, HoldsAWallet, Homes
<1>5. /\ n \in Frame /\ n.id = id /\ n.stored = screen.stored
      /\ n.keys = screen.keys /\ n.slot = screen.slot /\ n.wallet = screen.wallet
  BY <1>4, ScreenChanged
<1> HIDE DEF n
<1>6. Fits(n, flow, session)
  BY <1>3, <1>4, <1>5, CommonIds DEF Fits
<1>7. Shows(n, flow)
  BY <1>3, <1>5, CommonIds, CommonShows
<1> QED BY <1>1, <1>2, <1>3, <1>5, <1>6, <1>7, CommonIds, EnterMoves DEF n

\* A screen that names no wallet, pushed or shown instead.
LEMMA PlainMoves ==
  ASSUME IInv, NEW id \in Ids, Common(id), NEW f, Keeps(f), f.signed = None, Quiet,
         \/ /\ Push(Plain(id), f) /\ screen.id \in Bases
            /\ screen.id \in HoldsAWallet <=> id \in Over
         \/ Enter(Plain(id), f) /\ (screen.id \in Over <=> id \in Over)
  PROVE  IInv'
<1>1. Plain(id) \in Frame /\ Plain(id).id = id /\ ~Plain(id).stored
  BY PlainTyped
<1> QED BY <1>1, CommonMoves

LEMMA OpensKeep == ASSUME IInv, Receive \/ OpenSettings \/ RegistrationDetail PROVE IInv'
<1>1. \/ screen.id = "WalletHome" /\ Push(Plain("Receive"), flow)
      \/ screen.id = "Wallets" /\ Push(Plain("Settings"), flow)
      \/ screen.id = "MultisigList" /\ Push(Plain("MultisigDetail"), flow)
  BY DEF Receive, OpenSettings, RegistrationDetail, On
<1>2. Quiet
  BY DEF Receive, OpenSettings, RegistrationDetail, Quiet
<1>3. Keeps(flow) /\ flow.signed = None
  BY <1>1, OnTop
<1>4. {"WalletHome", "Wallets", "MultisigList"} \subseteq Bases
  BY DEF Bases
<1> QED BY <1>1, <1>2, <1>3, <1>4, CommonIds, PlainMoves

-----------------------------------------------------------------------------
(* A wallet is deleted. *)

LEMMA WalletDeleteKeeps == ASSUME IInv, WalletDelete PROVE IInv'
<1> DEFINE n == Naming("Erase", screen.slot, screen.wallet)
<1>1. screen.id = "WalletHome" /\ screen.stored /\ Enter(n, flow) /\ Quiet
  BY DEF WalletDelete, On, Quiet
<1>2. Fits(screen, flow, session) /\ screen \in Frame /\ Keeps(flow) /\ flow.signed = None
  BY <1>1, OnTop
<1>3. session /\ screen.slot \in Slots
  BY <1>1, <1>2 DEF Fits
<1>4. n \in Frame /\ n.id = "Erase" /\ n.slot = screen.slot /\ ~n.stored
  <2>1. "Erase" \in Ids /\ screen.slot \in Slots \cup {None} /\ screen.wallet \in Wallet \cup {None}
    BY <1>2 DEF Ids, Bases, Frame
  <2> QED BY <2>1 DEF Naming, Plain, Frame
<1> HIDE DEF n
<1>5. Fits(n, flow, session)
  BY <1>3, <1>4, CommonIds DEF Fits
<1>6. Shows(n, flow)
  BY <1>2, <1>4, CommonIds, CommonShows
<1> QED BY <1>1, <1>2, <1>4, <1>5, <1>6, CommonIds, EnterMoves

\* The screen that asks whether to erase.
LEMMA OnErase ==
  ASSUME IInv, screen.id = "Erase"
  PROVE  /\ session /\ screen.slot \in Slots /\ disk[screen.slot] \in Wallet \cup {None}
         /\ flow.wallet = None /\ flow.signed = None
<1>1. session /\ screen.slot \in Slots /\ flow.signed = None
  BY OnTop DEF Fits
<1>2. flow.wallet = None
  BY CommonIds DEF IInv, FlowAgrees, IsOpen
<1> QED BY <1>1, <1>2 DEF IInv, StoreAgrees, Rows

LEMMA EraseKeeps == ASSUME IInv, NEW gone \in BOOLEAN, EraseNow(gone) PROVE IInv'
<1> DEFINE n == Plain("Wallets")
           d == IF gone THEN [disk EXCEPT ![screen.slot] = None] ELSE disk
           f == IF flow.slot = screen.slot THEN Closed ELSE flow
<1>1. /\ screen.id = "Erase" /\ disk' = d /\ rows' = d /\ listed' = f.wallet
      /\ Enter(n, f) /\ UNCHANGED <<pin, session, status>>
  BY DEF EraseNow, On
<1>2. session /\ screen.slot \in Slots /\ flow.wallet = None /\ flow.signed = None
  BY <1>1, OnErase
<1>3. d \in Rows
  BY <1>2 DEF IInv, StoreAgrees, Rows
<1>4. f \in FlowSet /\ f.wallet = None /\ f.signed = None /\ f = Closed
  BY <1>2, ClosedTyped DEF IInv, FlowAgrees, IsOpen
<1>5. n \in Frame /\ n.id = "Wallets" /\ ~n.stored
  BY PlainTyped, CommonIds
<1> HIDE DEF n, d, f
<1>6. StoreAgrees'
  BY <1>1, <1>2, <1>3 DEF IInv, StoreAgrees
<1>7. Fits(n, flow, session) /\ Shows(n, f)
  BY <1>4, <1>5, CommonIds, CommonFits, CommonShows
<1>8. prior \in Seq(Frame) /\ Panel(Append(prior, n), f, session)
  <2>1. prior \in Seq(Frame) /\ screen \in Frame /\ Panel(Append(prior, screen), flow, session)
    BY DEF IInv, Stack
  <2>2. Panel(Append(prior, n), flow, session)
    BY <1>1, <1>5, <1>7, <2>1, CommonIds, PanelEnter
  <2> QED BY <1>5, <2>1, <2>2, CommonIds, PanelHolds
<1>9. Go(n, prior, f)
  BY <1>1 DEF Enter
<1> QED BY <1>1, <1>2, <1>4, <1>5, <1>6, <1>7, <1>8, <1>9, Moves

LEMMA WordsKeep == ASSUME IInv, EraseShowWords PROVE IInv'
<1> DEFINE n == Naming("Words", screen.slot, disk[screen.slot])
<1>1. screen.id = "Erase" /\ Push(n, flow) /\ Quiet
  BY DEF EraseShowWords, On, Quiet
<1>2. session /\ screen.slot \in Slots /\ disk[screen.slot] \in Wallet \cup {None}
  BY <1>1, OnErase
<1>3. n \in Frame /\ n.id = "Words" /\ ~n.stored
  <2>1. "Words" \in Ids /\ screen.slot \in Slots \cup {None}
    BY <1>2 DEF Ids
  <2> QED BY <1>2, <2>1 DEF Naming, Plain, Frame
<1> HIDE DEF n
<1>4. Fits(n, flow, session)
  BY <1>2, <1>3, CommonIds DEF Fits
<1>5. Keeps(flow) /\ flow.signed = None
  BY <1>1, OnTop
<1>6. Shows(n, flow) /\ "Erase" \in Bases
  BY <1>3, <1>5, CommonIds, CommonShows DEF Bases
<1> QED BY <1>1, <1>3, <1>4, <1>5, <1>6, CommonIds, PushMoves

-----------------------------------------------------------------------------
(* A transaction is signed. *)

\* A screen on the way to a signature, while the wallet is open.
LEMMA SigningMoves ==
  ASSUME IInv, IsOpen, NEW n \in Frame, n.id \in Signing, ~n.stored, NEW f, Keeps(f), Quiet,
         Shows(n, f),
         \/ Push(n, f) /\ screen.id \in Bases /\ screen.id \in HoldsAWallet
         \/ Enter(n, f) /\ screen.id \in Over
  PROVE  IInv'
<1>1. n.id \in Over /\ n.id \notin {"PassUnlock", "Erase", "Words", "Lock", "Pin"}
  BY CommonIds DEF Signing
<1>2. Fits(n, flow, session)
  BY <1>1, Kinds DEF Fits, IsOpen
<1> QED BY <1>1, <1>2, PushMoves, EnterMoves

LEMMA SourceKeeps ==
  ASSUME IInv, PickFile \/ PickDirectory \/ \E id \in {"SignSource", "FilePicker"} : ActSign(id)
  PROVE  IInv'
<1>1. PICK id \in {"SignSource", "FilePicker"} :
        \/ screen.id = "WalletHome" /\ screen.stored /\ screen.keys /\ Push(Plain(id), flow)
        \/ screen.id = "FilePicker" /\ Push(Plain(id), flow)
        \/ screen.id = "SignSource" /\ Enter(Plain(id), flow)
  BY DEF PickFile, PickDirectory, ActSign, On
<1>2. Quiet
  BY DEF PickFile, PickDirectory, ActSign, Quiet
<1>3. Fits(screen, flow, session) /\ Keeps(flow) /\ flow.signed = None
  BY <1>1, OnTop
<1>4. IsOpen
  BY <1>1, <1>3, CommonIds DEF Fits, IsOpen, Signing
<1> DEFINE n == Plain(id)
<1>5. n \in Frame /\ n.id = id /\ id \in Signing /\ ~n.stored
  <2>1. id \in Signing /\ id \in Ids
    BY CommonIds DEF Signing
  <2> QED BY <2>1, PlainTyped
<1>6. {"WalletHome", "FilePicker"} \subseteq Bases /\ screen.id \in HoldsAWallet
      /\ (screen.id = "SignSource" => screen.id \in Over)
  BY <1>1, CommonIds DEF Bases, Signing
<1> HIDE DEF n
<1>7. Shows(n, flow)
  BY <1>3, <1>5 DEF Shows
<1> QED BY <1>1, <1>2, <1>3, <1>4, <1>5, <1>6, <1>7, SigningMoves DEF n

LEMMA LoadKeeps == ASSUME IInv, NEW tx \in Tx \cup {None}, LoadPsbt(tx) PROVE IInv'
<1>1. screen.id \in {"SignSource", "FilePicker"} /\ Quiet
  BY DEF LoadPsbt, On, Quiet
<1>2. /\ screen.id \in Signing /\ screen.id \in Over /\ screen.id \in HoldsAWallet
      /\ screen.id \in Bases
  BY <1>1, CommonIds DEF Signing, Bases
<1>3. flow.signed = None /\ IsOpen
  BY <1>1, <1>2, OnTop
<1>4. CASE tx # None
  <2> DEFINE f == [flow EXCEPT !.loaded = tx]
  <2>1. Push(Showing("Review", tx), f)
    BY <1>3, <1>4 DEF LoadPsbt
  <2>2. Keeps(f) /\ f.signed = None /\ f.loaded = tx
    BY <1>3, FlowChanged
  <2> HIDE DEF f
  <2>3. "Review" \in Signing /\ "Review" \in Ids
    BY CommonIds DEF Signing
  <2> DEFINE n == Showing("Review", tx)
  <2>4. n \in Frame /\ n.id = "Review" /\ n.tx = tx /\ ~n.stored
    BY <2>3, PlainTyped
  <2> HIDE DEF n
  <2>5. Shows(n, f)
    BY <2>2, <2>4 DEF Shows
  <2> QED BY <1>1, <1>2, <1>3, <2>1, <2>2, <2>3, <2>4, <2>5, SigningMoves DEF n
<1>5. CASE tx = None
  <2> DEFINE f == [flow EXCEPT !.loaded = None]
  <2>1. Push(Plain("Refusal"), f)
    BY <1>3, <1>5 DEF LoadPsbt
  <2>2. Keeps(f) /\ f.signed = None
    BY <1>3, <1>5, FlowChanged
  <2> HIDE DEF f
  <2> QED BY <1>1, <1>2, <2>1, <2>2, CommonIds, PlainMoves
<1> QED BY <1>4, <1>5

LEMMA SignKeeps == ASSUME IInv, NEW ok \in BOOLEAN, SignTx(ok) PROVE IInv'
<1>1. screen.id = "Review" /\ Quiet
  BY DEF SignTx, On, Quiet
<1>2. screen.id \in Signing /\ screen.id \in Over /\ Keeps(flow) /\ flow.signed = None /\ IsOpen
  BY <1>1, OnTop, CommonIds DEF Signing
<1>3. CASE IsOpen /\ flow.loaded # None /\ ok
  <2> DEFINE s == [tx |-> flow.loaded, by |-> flow.wallet]
             f == [flow EXCEPT !.loaded = None, !.signed = s]
             n == Showing("Deliver", flow.loaded)
  <2>1. Enter(n, f)
    BY <1>3 DEF SignTx
  <2>2. flow \in FlowSet /\ flow.loaded \in Tx /\ flow.wallet \in Wallet
    BY <1>3 DEF IInv, FlowAgrees, FlowSet, IsOpen
  <2>3. s \in [tx : Tx, by : Wallet]
    BY <2>2
  <2> HIDE DEF s
  <2>4. f \in FlowSet /\ f.signed = s /\ f.wallet = flow.wallet /\ f.slot = flow.slot
    BY <2>2, <2>3 DEF FlowSet
  <2>5. flow # Closed
    BY <1>3, ClosedTyped DEF IsOpen
  <2>6. "Deliver" \in Signing /\ "Deliver" \in Ids
    BY CommonIds DEF Signing
  <2>7. n \in Frame /\ n.id = "Deliver" /\ n.tx = flow.loaded /\ ~n.stored
    BY <2>2, <2>6, PlainTyped
  <2> HIDE DEF f, n
  <2>8. Keeps(f)
    BY <2>4, <2>5 DEF Keeps
  <2>9. Shows(n, f)
    BY <2>4, <2>7 DEF Shows, s
  <2> QED BY <1>1, <1>2, <2>1, <2>6, <2>7, <2>8, <2>9, SigningMoves
<1>4. CASE ~(IsOpen /\ flow.loaded # None /\ ok)
  <2>1. Enter(Plain("Refusal"), flow)
    BY <1>4 DEF SignTx
  <2> QED BY <1>1, <1>2, <2>1, CommonIds, PlainMoves
<1> QED BY <1>3, <1>4

LEMMA DiscardKeeps == ASSUME IInv, DiscardSigned PROVE IInv'
<1>1. Quiet
  BY DEF DiscardSigned, Quiet
<1>2. CASE flow.signed # None
  BY <1>1, <1>2, FlowChanged, PopMoves DEF DiscardSigned
<1>3. CASE flow.signed = None
  <2>1. Stay(flow) /\ Shows(screen, flow) /\ Keeps(flow)
    BY <1>3, OnTop DEF DiscardSigned, IInv
  <2> QED BY <1>1, <2>1, StayMoves
<1> QED BY <1>2, <1>3

-----------------------------------------------------------------------------
(* Registrations, and the way back. *)

LEMMA MultisigKeeps == ASSUME IInv, ActMultisig PROVE IInv'
<1> DEFINE n == Naming("MultisigList", screen.slot, screen.wallet)
<1>1. screen.id = "WalletHome" /\ screen.stored /\ Push(n, flow) /\ Quiet
  BY DEF ActMultisig, On, Quiet
<1>2. screen \in Frame /\ Keeps(flow) /\ flow.signed = None
  BY <1>1, OnTop
<1>3. n \in Frame /\ n.id = "MultisigList" /\ ~n.stored
  <2>1. /\ "MultisigList" \in Ids
        /\ screen.slot \in Slots \cup {None} /\ screen.wallet \in Wallet \cup {None}
    BY <1>2 DEF Ids, Bases, Frame
  <2> QED BY <2>1 DEF Naming, Plain, Frame
<1> HIDE DEF n
<1>4. "WalletHome" \in Bases
  BY DEF Bases
<1> QED BY <1>1, <1>2, <1>3, <1>4, CommonIds, CommonMoves

LEMMA ImportKeeps == ASSUME IInv, NEW ok \in BOOLEAN, ImportRegistration(ok) PROVE IInv'
<1>1. screen.id = "MultisigList" /\ Quiet
  BY DEF ImportRegistration, On, Quiet
<1>2. flow.signed = None /\ screen.id \in Bases /\ screen.id \in HoldsAWallet
  BY <1>1, OnTop, CommonIds DEF Bases
<1>3. CASE IsOpen /\ ok
  <2> DEFINE f == [flow EXCEPT !.pending = TRUE]
  <2>1. Push(Plain("MultisigImport"), f)
    BY <1>3 DEF ImportRegistration
  <2>2. Keeps(f) /\ f.signed = None
    BY <1>2, <1>3, FlowChanged
  <2> HIDE DEF f
  <2> QED BY <1>1, <1>2, <2>1, <2>2, CommonIds, PlainMoves
<1>4. CASE ~(IsOpen /\ ok)
  <2> DEFINE f == [flow EXCEPT !.pending = FALSE]
  <2>1. Push(Plain("Refusal"), f)
    BY <1>4 DEF ImportRegistration
  <2>2. Keeps(f) /\ f.signed = None
    BY <1>2, FlowChanged
  <2> HIDE DEF f
  <2> QED BY <1>1, <1>2, <2>1, <2>2, CommonIds, PlainMoves
<1> QED BY <1>3, <1>4

LEMMA ApproveKeeps ==
  ASSUME IInv, NEW ok \in BOOLEAN, NEW keep \in BOOLEAN, Approve(ok, keep)
  PROVE  IInv'
<1>1. screen.id = "MultisigImport" /\ Quiet
  BY DEF Approve, On, Quiet
<1>2. flow.signed = None /\ screen.id \in Over /\ flow \in FlowSet
  BY <1>1, OnTop, CommonIds DEF IInv, FlowAgrees
<1>3. PICK b \in BOOLEAN, id \in {"MultisigDetail", "Refusal"} :
        Enter(Plain(id), [flow EXCEPT !.pending = b]) /\ (b => IsOpen)
  <2>1. CASE IsOpen /\ flow.pending /\ ok
    BY <2>1 DEF Approve
  <2>2. CASE ~(IsOpen /\ flow.pending /\ ok)
    <3>1. Enter(Plain("Refusal"), [flow EXCEPT !.pending = @ /\ keep])
      BY <2>2 DEF Approve
    <3>2. CASE IsOpen
      BY <3>1, <3>2
    <3>3. CASE ~IsOpen
      <4>1. flow.pending = FALSE
        <5>1. flow = Closed
          BY <3>3 DEF IInv, FlowAgrees
        <5> QED BY <5>1, ClosedTyped
      <4> QED BY <3>1, <4>1
    <3> QED BY <3>2, <3>3
  <2> QED BY <2>1, <2>2
<1> DEFINE f == [flow EXCEPT !.pending = b]
<1>4. Keeps(f) /\ f.signed = None
  BY <1>2, <1>3, FlowChanged
<1> HIDE DEF f
<1> QED BY <1>1, <1>2, <1>3, <1>4, CommonIds, PlainMoves DEF f

LEMMA DeregisterKeeps == ASSUME IInv, NEW ok \in BOOLEAN, DeleteRegistration(ok) PROVE IInv'
<1>1. screen.id = "MultisigDetail" /\ Quiet
  BY DEF DeleteRegistration, On, Quiet
<1>2. Keeps(flow) /\ flow.signed = None /\ Shows(screen, flow)
  BY <1>1, OnTop DEF IInv
<1>3. Pop(flow) \/ Stay(flow)
  BY DEF DeleteRegistration
<1> QED BY <1>1, <1>2, <1>3, PopMoves, StayMoves

LEMMA BackKeeps == ASSUME IInv, Back PROVE IInv'
<1>1. screen.id \in Pops /\ Quiet /\ Pop(flow)
  BY DEF Back, On, Quiet
<1>2. screen.id # "Deliver"
  BY <1>1 DEF Pops
<1>3. Keeps(flow) /\ flow.signed = None
  BY <1>2, OnTop
<1> QED BY <1>1, <1>3, PopMoves

-----------------------------------------------------------------------------
LEMMA TapKeeps == ASSUME IInv, Tap PROVE IInv'
<1>1. ASSUME NEW w \in Wallet, Made(w) PROVE IInv'
  BY <1>1, MadeKeeps
<1>2. ASSUME NEW x \in Slots, OpenWallet(x) PROVE IInv'
  BY <1>2, OpenWalletKeeps
<1>3. ASSUME NEW tx \in Tx \cup {None}, LoadPsbt(tx) PROVE IInv'
  BY <1>3, LoadKeeps
<1>4. ASSUME NEW ok \in BOOLEAN,
             \/ EraseNow(ok) \/ SignTx(ok) \/ ImportRegistration(ok) \/ DeleteRegistration(ok)
             \/ \E keep \in BOOLEAN : Approve(ok, keep)
      PROVE  IInv'
  BY <1>4, EraseKeeps, SignKeeps, ImportKeeps, DeregisterKeeps, ApproveKeeps
<1>5. CASE LockSession \/ LockWake \/ PinBack \/ Unsealed \/ Wiped \/ Unreadable \/ SetPin
  BY <1>5, LockKeeps, LockScreenKeeps, PinKeeps, SetPinKeeps
<1>6. CASE MakeFromHome \/ MakeFromWallets \/ MakeFromWallet \/ UseOnce \/ SaveToDevice \/ ConfirmSave
  BY <1>6, MakeKeeps, UseOnceKeeps, SaveKeeps, ConfirmSaveKeeps
<1>7. CASE UnlockWallet \/ UnlockFails \/ Export \/ Receive \/ OpenSettings \/ RegistrationDetail
  BY <1>7, UnlockKeeps, UnlockFailsKeeps, FacesKeep, OpensKeep
<1>8. CASE WalletDelete \/ EraseShowWords \/ DiscardSigned \/ ActMultisig
  BY <1>8, WalletDeleteKeeps, WordsKeep, DiscardKeeps, MultisigKeeps
<1>9. CASE PickFile \/ PickDirectory \/ \E id \in {"SignSource", "FilePicker"} : ActSign(id)
  BY <1>9, SourceKeeps
<1>10. CASE Back \/ SchemesBack \/ Touch \/ ActWords
  BY <1>10, BackKeeps, FacesKeep, LockKeeps
<1> QED BY <1>1, <1>2, <1>3, <1>4, <1>5, <1>6, <1>7, <1>8, <1>9, <1>10 DEF Tap

LEMMA StepKeeps == IInv /\ [Next]_vars => IInv'
<1>1. ASSUME IInv, UNCHANGED vars PROVE IInv'
  BY <1>1, Stays DEF vars
<1> QED BY <1>1, TapKeeps, LockKeeps, BootKeeps DEF Next

\* Every state that can be reached satisfies the invariant.
THEOREM Invariant == Spec => []IInv
<1> QED BY Initially, StepKeeps, PTL DEF Spec

\* The frames are the places of the stack.
LEMMA FramesStacked ==
  ASSUME IInv
  PROVE  /\ \A f \in Frames : f \in Frame /\ Fits(f, flow, session)
         /\ \A i \in 1 .. (Len(prior) + 1) : Stack[i] \in Frames
<1>1. prior \in Seq(Frame) /\ screen \in Frame /\ Panel(Stack, flow, session)
  BY DEF IInv
<1>2. /\ Len(prior) \in Nat /\ Len(Stack) = Len(prior) + 1
      /\ \A i \in 1 .. Len(prior) : Stack[i] = prior[i]
      /\ Stack[Len(prior) + 1] = screen
  BY <1>1, Stacked DEF Stack
<1>3. Frames = {prior[i] : i \in 1 .. Len(prior)} \cup {screen}
  BY <1>1 DEF Frames, ToSet
<1>4. ASSUME NEW f \in Frames PROVE f \in Frame /\ Fits(f, flow, session)
  <2>1. \E i \in 1 .. Len(Stack) : f = Stack[i]
    <3>1. CASE f = screen
      <4>1. Len(prior) + 1 \in 1 .. Len(Stack)
        BY <1>2
      <4> QED BY <1>2, <3>1, <4>1
    <3>2. CASE f # screen
      <4>1. PICK i \in 1 .. Len(prior) : f = prior[i]
        BY <1>3, <3>2
      <4>2. i \in 1 .. Len(Stack)
        BY <1>2
      <4> QED BY <1>2, <4>1, <4>2
    <3> QED BY <3>1, <3>2
  <2> QED BY <1>1, <2>1 DEF Panel
<1>5. ASSUME NEW i \in 1 .. (Len(prior) + 1) PROVE Stack[i] \in Frames
  <2>1. i \in 1 .. Len(prior) \/ i = Len(prior) + 1
    BY <1>2
  <2> QED BY <1>2, <1>3, <2>1
<1> QED BY <1>4, <1>5

\* Nothing of a session outlives it.
THEOREM NothingIsLeft == Spec => []SessionLeavesNothing
<1>1. ASSUME IInv PROVE SessionLeavesNothing
  <2>1. ~session => flow = Closed /\ held = {} /\ rows = NoRows /\ listed = None
    BY <1>1 DEF IInv, StoreAgrees, FlowAgrees
  <2>2. ASSUME ~session, NEW f \in Frames
        PROVE  ~f.stored /\ f.id \notin {"PassUnlock", "Erase", "Words"}
    BY <1>1, <2>2, FramesStacked DEF Fits
  <2> QED BY <2>1, <2>2 DEF SessionLeavesNothing
<1> QED BY <1>1, Invariant, PTL

\* A wallet is open only behind the screens that show it.
THEOREM OpenIsShown == Spec => []OpenBehindItsScreens
<1>1. ASSUME IInv, IsOpen
      PROVE  /\ screen.id \in HoldsAWallet /\ disk[flow.slot] = flow.wallet
             /\ \E f \in Frames : f.id \in {"WalletHome", "Schemes"} /\ f.stored /\ f.keys
                                    /\ f.slot = flow.slot
             /\ \A f \in Frames : f.id \in {"WalletHome", "Schemes"} =>
                                    f.slot = flow.slot /\ f.wallet = flow.wallet
  <2>1. screen.id \in HoldsAWallet /\ disk[flow.slot] = flow.wallet
    BY <1>1 DEF IInv, FlowAgrees
  <2>2. \A f \in Frames : f.id \in Homes =>
          f.stored /\ f.keys /\ f.slot = flow.slot /\ f.wallet = flow.wallet
    BY <1>1, FramesStacked DEF Fits, IsOpen
  <2>3. PICK i \in 1 .. (Len(prior) + 1) : Stack[i].id \in Homes
    <3>1. prior \in Seq(Frame) /\ screen \in Frame /\ Panel(Append(prior, screen), flow, session)
      BY <1>1 DEF IInv, Stack
    <3> QED BY <2>1, <3>1, PanelHome DEF Stack
  <2>4. Stack[i] \in Frames
    BY <1>1, FramesStacked
  <2>5. \E f \in Frames : f.id \in Homes /\ f.stored /\ f.keys /\ f.slot = flow.slot
    BY <2>2, <2>3, <2>4
  <2> QED BY <2>1, <2>2, <2>5 DEF Homes
<1>2. IInv => OpenBehindItsScreens
  BY <1>1 DEF OpenBehindItsScreens
<1> QED BY <1>2, Invariant, PTL

\* What is reviewed is what would be signed, and what was signed is what is delivered.
THEOREM SignedIsShown == Spec => []SignsWhatIsShown
<1>1. ASSUME IInv PROVE SignsWhatIsShown
  <2>1. screen.id \in Signing => IsOpen
    BY <1>1, OnTop
  <2>2. Shows(screen, flow)
    BY <1>1 DEF IInv
  <2> QED BY <2>1, <2>2 DEF SignsWhatIsShown, Shows, Signing
<1> QED BY <1>1, Invariant, PTL

\* The lists on the panel are the store's, and those of the wallet that is open.
THEOREM ListsStayCurrent == Spec => []ListsAreCurrent
<1>1. IInv => ListsAreCurrent
  BY DEF IInv, StoreAgrees, FlowAgrees, ListsAreCurrent
<1> QED BY <1>1, Invariant, PTL

=============================================================================

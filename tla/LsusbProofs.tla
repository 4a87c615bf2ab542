----------------------------- MODULE LsusbProofs -----------------------------
(***************************************************************************)
(* Proof that lsusb's device loop lists exactly the devices that agree     *)
(* with the parsed filters, in order and once each, for every device list  *)
(* and every command line.                                                 *)
(***************************************************************************)
EXTENDS Lsusb, TLAPS

FilterFlags == {"busSet", "devnumSet", "vendorSet", "productSet", "flag"}
FilterFields == FilterFlags \cup {"bus", "devnum", "vendor", "product"}

\* The parsed options: a record whose flags are Booleans.
OptsOK == DOMAIN o = FilterFields /\ \A f \in FilterFlags : o[f] \in BOOLEAN

\* Device k is in the list s; Listed(k): it has been printed.
ListedIn(s, k) == \E j \in 1 .. Len(s) : s[j] = k
Listed(k) == ListedIn(shown, k)

\* The elements of s are strictly increasing.
Increasing(s) == \A j \in 1 .. Len(s) - 1 : s[j] < s[j + 1]

\* Appending x to s adds x to the listed elements and nothing else.
LEMMA AppendListed ==
    ASSUME NEW S, NEW s \in Seq(S), NEW x, NEW k
    PROVE  ListedIn(Append(s, x), k) <=> ListedIn(s, k) \/ k = x
<1> DEFINE t == Append(s, x)
<1>1. Len(t) = Len(s) + 1 /\ t[Len(s) + 1] = x
      /\ \A j \in 1 .. Len(s) : t[j] = s[j]
    OBVIOUS
<1>2. ASSUME NEW j \in 1 .. Len(t)
      PROVE  j \in 1 .. Len(s) \/ j = Len(s) + 1
    BY <1>1
<1>3. QED
    BY <1>1, <1>2 DEF ListedIn

\* Appending to an increasing sequence a number above its elements keeps
\* it increasing.
LEMMA AppendIncreasing ==
    ASSUME NEW s \in Seq(Nat), NEW x \in Nat, Increasing(s),
           \A j \in 1 .. Len(s) : s[j] < x
    PROVE  Increasing(Append(s, x))
<1> DEFINE t == Append(s, x)
<1>1. Len(t) = Len(s) + 1 /\ t[Len(s) + 1] = x
      /\ \A j \in 1 .. Len(s) : t[j] = s[j]
    OBVIOUS
<1>2. ASSUME NEW j \in 1 .. Len(t) - 1
      PROVE  t[j] < t[j + 1]
  <2>1. CASE j < Len(s)
    BY <1>1, <2>1 DEF Increasing
  <2>2. CASE j = Len(s)
    BY <1>1, <2>2
  <2>3. QED
    BY <1>1, <2>1, <2>2
<1>3. QED
    BY <1>2 DEF Increasing

(***************************************************************************)
(* The inductive invariant: the walk has visited devices 1 .. di, and      *)
(* shown lists, in increasing order, exactly those of them that agree with *)
(* the filters. While getopt runs the walk has not begun, so the filters   *)
(* may still change.                                                       *)
(***************************************************************************)
\* In the configuration loop, di names a device and conf_cnt one of its
\* configurations or the end of them.
CfgOK == pc = "cfg" => di \in 1 .. Len(Devs) /\ ci \in 0 .. Len(Devs[di].cfgs)

LInv ==
    /\ argv \in CmdLines
    /\ ai \in 0 .. Len(argv)
    /\ OptsOK
    /\ pc \in {"opts", "devs", "cfg", "done", "crash"}
    /\ di \in 0 .. Len(Devs)
    /\ pc = "opts" => di = 0
    /\ shown \in Seq(1 .. di)
    /\ \A k \in 1 .. di : Listed(k) <=> Agrees(Devs[k])
    /\ Increasing(shown)
    /\ CfgOK

\* The two continue tests skip a device exactly when it fails a set filter.
LEMMA SkippedIffDisagrees ==
    ASSUME OptsOK, NEW d
    PROVE  Skipped(d) <=> ~Agrees(d)
<1>1. o.busSet \in BOOLEAN /\ o.devnumSet \in BOOLEAN
      /\ o.vendorSet \in BOOLEAN /\ o.productSet \in BOOLEAN
    BY DEF OptsOK, FilterFlags
<1>2. QED
    BY <1>1 DEF Skipped, Agrees

\* A step that moves only pc (and ci) keeps the invariant.
LEMMA LInvFrame ==
    ASSUME LInv, o' = o, di' = di, shown' = shown, argv' = argv, ai' = ai,
           pc' \in {"devs", "cfg", "done", "crash"}, CfgOK'
    PROVE  LInv'
<1>1. OptsOK'
    BY DEF LInv, OptsOK
<1>2. \A k \in 1 .. di' : Listed(k)' <=> Agrees(Devs[k])'
    BY DEF LInv, Listed, Agrees
<1>3. QED
    BY <1>1, <1>2 DEF LInv

LEMMA LInvInit == Init => LInv
<1> SUFFICES ASSUME Init PROVE LInv
    OBVIOUS
<1>1. OptsOK
    BY DEF Init, NoFilter, OptsOK, FilterFlags, FilterFields
<1>2. argv \in CmdLines /\ ai \in 0 .. Len(argv)
    BY LsusbAssumption DEF Init
<1>3. QED
    BY <1>1, <1>2 DEF Init, LInv, Listed, ListedIn, Increasing, CfgOK

LEMMA LInvStep == LInv /\ [Next]_vars => LInv'
<1> SUFFICES ASSUME LInv, [Next]_vars PROVE LInv'
    OBVIOUS
<1> USE LsusbAssumption
<1>1. CASE GetOpt
  <2>1. /\ pc = "opts" /\ di = 0 /\ shown = << >>
        /\ UNCHANGED <<argv, di, ci, shown>>
    BY <1>1 DEF GetOpt, GetOptEnd, OptUsage, OptVerbose, OptS, OptDBad, OptD,
                optVars, LInv
  <2>2. /\ ai' \in 0 .. Len(argv)
        /\ pc' \in {"opts", "devs", "done"}
    BY <1>1 DEF GetOpt, GetOptEnd, OptUsage, OptVerbose, OptS, OptDBad, OptD,
                LInv
  <2>3. OptsOK'
    <3>1. CASE GetOptEnd \/ OptUsage \/ OptDBad
      BY <3>1 DEF GetOptEnd, OptUsage, OptDBad, LInv, OptsOK
    <3>2. CASE OptVerbose
      BY <3>2 DEF OptVerbose, LInv, OptsOK, FilterFlags, FilterFields
    <3>3. CASE OptS
      BY <3>3 DEF OptS, ParseS, LInv, OptsOK, FilterFlags, FilterFields
    <3>4. CASE OptD
      BY <3>4 DEF OptD, ParseD, LInv, OptsOK, FilterFlags, FilterFields
    <3>5. QED
      BY <1>1, <3>1, <3>2, <3>3, <3>4 DEF GetOpt
  <2>4. CfgOK'
    BY <2>2 DEF CfgOK
  <2>5. QED
    BY <2>1, <2>2, <2>3, <2>4 DEF LInv, Listed
<1>2. CASE DevStep
  <2>1. UNCHANGED <<o, argv, ai>> /\ pc = "devs"
    BY <1>2 DEF DevStep
  <2>2. CASE di = Len(Devs)
    <3>1. UNCHANGED <<di, shown>> /\ pc' = "done"
      BY <1>2, <2>2 DEF DevStep
    <3>2. CfgOK'
      BY <3>1 DEF CfgOK
    <3>3. QED
      BY <2>1, <3>1, <3>2, LInvFrame
  <2>3. CASE di # Len(Devs)
    <3> DEFINE d == Devs[di + 1]
    <3>1. di \in Nat /\ di' = di + 1 /\ di + 1 \in 1 .. Len(Devs)
      BY <1>2, <2>3 DEF DevStep, LInv
    <3>2. pc' \in {"devs", "cfg"}
      BY <1>2, <2>3 DEF DevStep
    <3>3. Skipped(d) <=> ~Agrees(d)
      BY SkippedIffDisagrees DEF LInv
    <3>4. shown \in Seq(1 .. di)
      BY DEF LInv
    <3>5. OptsOK' /\ \A k \in 1 .. di' : Agrees(Devs[k])' = Agrees(Devs[k])
      BY <2>1 DEF LInv, OptsOK, Agrees
    <3>6. CASE Skipped(d)
      <4>1. shown' = shown
        BY <1>2, <2>3, <3>6 DEF DevStep
      <4>2. ~Listed(di + 1)
        <5>1. \A j \in 1 .. Len(shown) : shown[j] <= di
          BY <3>1, <3>4
        <5>2. QED
          BY <3>1, <5>1 DEF Listed, ListedIn
      <4>3. \A k \in 1 .. di : Listed(k)' <=> Agrees(Devs[k])
        BY <4>1 DEF LInv, Listed
      <4>4. \A k \in 1 .. di' : Listed(k)' <=> Agrees(Devs[k])'
        BY <3>1, <3>3, <3>5, <3>6, <4>1, <4>2, <4>3 DEF Listed
      <4>5. shown' \in Seq(1 .. di')
        BY <3>1, <3>4, <4>1
      <4>6. CfgOK'
        BY <1>2, <2>3, <3>6 DEF DevStep, CfgOK
      <4>7. QED
        BY <2>1, <3>1, <3>2, <3>5, <4>1, <4>4, <4>5, <4>6 DEF LInv
    <3>7. CASE ~Skipped(d)
      <4>1. shown' = Append(shown, di + 1)
        BY <1>2, <2>3, <3>7 DEF DevStep
      <4>2. shown' \in Seq(1 .. di')
        BY <3>1, <3>4, <4>1
      <4>3. \A k \in 1 .. di' : ListedIn(shown', k) <=> ListedIn(shown, k) \/ k = di + 1
        BY <3>4, <4>1, AppendListed
      <4>4. \A k \in 1 .. di : ~(k = di + 1)
        BY <3>1
      <4>5. \A k \in 1 .. di' : ListedIn(shown', k) <=> Agrees(Devs[k])'
        BY <3>1, <3>3, <3>5, <3>7, <4>3, <4>4 DEF LInv, Listed
      <4>6. Increasing(shown')
        <5>1. shown \in Seq(Nat) /\ di + 1 \in Nat
          BY <3>1, <3>4
        <5>2. \A j \in 1 .. Len(shown) : shown[j] < di + 1
          BY <3>1, <3>4
        <5>3. QED
          BY <4>1, <5>1, <5>2, AppendIncreasing DEF LInv
      <4>7. CfgOK'
        BY <1>2, <2>3, <3>1, <3>7 DEF DevStep, CfgOK
      <4>8. QED
        BY <2>1, <3>1, <3>2, <3>5, <4>2, <4>5, <4>6, <4>7 DEF LInv, Listed
    <3>8. QED
      BY <3>6, <3>7
  <2>4. QED
    BY <2>2, <2>3
<1>3. CASE CfgStep
  <2>1. UNCHANGED <<o, di, shown, argv, ai>> /\ pc' \in {"devs", "cfg", "crash"}
    BY <1>3 DEF CfgStep
  \* conf_cnt moves one step, and only while below the count.
  <2>2. CfgOK'
    <3>1. di \in 1 .. Len(Devs) /\ ci \in 0 .. Len(Devs[di].cfgs)
      BY <1>3 DEF CfgStep, LInv, CfgOK
    <3>2. QED
      BY <1>3, <2>1, <3>1 DEF CfgStep, CfgOK
  <2>3. QED
    BY <2>1, <2>2, LInvFrame
<1>4. CASE UNCHANGED vars
    BY <1>4 DEF vars, LInv, Listed, OptsOK, Agrees, CfgOK
<1>5. QED
    BY <1>1, <1>2, <1>3, <1>4 DEF Next

LEMMA LInvShows == LInv => ShowsMatching
<1> SUFFICES ASSUME LInv, WalkDone
             PROVE  /\ \A k \in 1 .. Len(Devs) :
                          (\E j \in 1 .. Len(shown) : shown[j] = k)
                          <=> Agrees(Devs[k])
                    /\ \A j \in 1 .. Len(shown) - 1 : shown[j] < shown[j + 1]
    BY DEF ShowsMatching
<1>1. di = Len(Devs)
    BY DEF WalkDone
<1>2. QED
    BY <1>1 DEF LInv, Listed, ListedIn, Increasing

(***************************************************************************)
(* For every device list and every command line, when lsusb's device loop  *)
(* (lsusb.c lines 205-231) ends it has printed, in usb_dev_iterate order   *)
(* and once each, exactly the devices that agree with every filter the     *)
(* options set.                                                            *)
(***************************************************************************)
THEOREM ListsExactlyMatching == Spec => []ShowsMatching
<1>1. Init => LInv
    BY LInvInit
<1>2. LInv /\ [Next]_vars => LInv'
    BY LInvStep
<1>3. LInv => ShowsMatching
    BY LInvShows
<1>4. QED
    BY <1>1, <1>2, <1>3, PTL DEF Spec

\* The invariant keeps every index in range.
LEMMA LInvType == LInv => TypeOK
<1> SUFFICES ASSUME LInv PROVE TypeOK
    OBVIOUS
<1>1. argv \in Seq(Option)
    BY LsusbAssumption DEF LInv
<1>2. shown \in Seq(1 .. Len(Devs))
    BY DEF LInv
<1>3. QED
    BY <1>1, <1>2 DEF LInv, CfgOK, TypeOK

(***************************************************************************)
(* For every device list and command line, getopt's index stays within     *)
(* argv, the device walk within the list usb_dev_iterate returns, and      *)
(* conf_cnt within the configurations of the device being shown, so        *)
(* lsusb.c never indexes past Devs or a device's configurations.           *)
(***************************************************************************)
THEOREM TypeCorrect == Spec => []TypeOK
<1>1. Init => LInv
    BY LInvInit
<1>2. LInv /\ [Next]_vars => LInv'
    BY LInvStep
<1>3. LInv => TypeOK
    BY LInvType
<1>4. QED
    BY <1>1, <1>2, <1>3, PTL DEF Spec

=============================================================================

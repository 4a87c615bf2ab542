------------------------------- MODULE Lsusb --------------------------------
(***************************************************************************)
(* The lsusb command (src/src/cmds/hardware/lsusb/lsusb.c): main parses    *)
(* its options with getopt, then walks the USB devices with                *)
(* usb_dev_iterate, skips those the -s and -d filters exclude, prints the  *)
(* others and, with -v, each configuration and its interfaces.             *)
(*                                                                         *)
(* An option is what getopt returns: its letter and, for -s and -d, the    *)
(* argument split at the first ':' into a left and a right part, each the  *)
(* number strtoul reads from it or NoNum for an empty part. The printing   *)
(* itself is abstracted to which device and configuration is printed.      *)
(* The device table is the USB core's (not in the source tree): for each   *)
(* configuration, whether config_buf and usb_iface[0] are set.             *)
(***************************************************************************)
EXTENDS Naturals, Sequences

CONSTANTS Devs,      \* the devices, in usb_dev_iterate order
          CmdLines,  \* the option sequences a user may give
          NoNum,     \* an empty part of an option argument
          W          \* bits of bus, devnum, vendor and product (uint16_t)

\* What the USB core records of a device: its bus, address, vendor and
\* product, and per configuration the interfaces (iface_desc[0] set or not).
Device == [bus : Nat, addr : Nat, vendor : Nat, product : Nat,
           cfgs : Seq([ifaces : Seq([desc : BOOLEAN])])]

\* What getopt returns: the option letter ('?' for an unknown one) and, for
\* -s and -d, the argument as described above.
Option == [opt : {"h", "?", "v", "s", "d"}, colon : BOOLEAN,
           l : Nat \cup {NoNum}, r : Nat \cup {NoNum}]

ASSUME LsusbAssumption ==
    /\ W \in Nat \ {0}
    /\ NoNum \notin Nat
    /\ Devs \in Seq(Device)
    /\ CmdLines \subseteq Seq(Option)

VARIABLES argv,   \* the options getopt returns, in order
          ai,     \* how many getopt has returned
          o,      \* bus, devnum, vendor, product, their *_set flags, flag
          pc,     \* "opts", "devs", "cfg", "done" or "crash"
          di,     \* the device usb_dev_iterate returned last (0: none yet)
          ci,     \* conf_cnt
          shown   \* history: the devices show_usb_dev printed

vars == <<argv, ai, o, pc, di, ci, shown>>

\* strtoul into a uint16_t keeps the low W bits.
U16(n) == n % 2^W

NoFilter == [bus |-> 0, busSet |-> FALSE, devnum |-> 0, devnumSet |-> FALSE,
             vendor |-> 0, vendorSet |-> FALSE, product |-> 0,
             productSet |-> FALSE, flag |-> FALSE]

Init ==
    /\ argv \in CmdLines
    /\ ai = 0
    /\ o = NoFilter
    /\ pc = "opts"
    /\ di = 0
    /\ ci = 0
    /\ shown = << >>

\* case 's' (lines 164-182): [[bus]:]devnum, each part only if not empty.
ParseS(a) ==
    LET busPart == IF a.colon THEN a.l ELSE NoNum
        devPart == IF a.colon THEN a.r ELSE a.l
    IN  [o EXCEPT !.busSet = @ \/ busPart # NoNum,
                  !.bus = IF busPart # NoNum THEN U16(busPart) ELSE @,
                  !.devnumSet = @ \/ devPart # NoNum,
                  !.devnum = IF devPart # NoNum THEN U16(devPart) ELSE @]

\* case 'd' (lines 183-198), once the ':' has been found.
ParseD(a) ==
    [o EXCEPT !.vendorSet = @ \/ a.l # NoNum,
              !.vendor = IF a.l # NoNum THEN U16(a.l) ELSE @,
              !.productSet = @ \/ a.r # NoNum,
              !.product = IF a.r # NoNum THEN U16(a.r) ELSE @]

(***************************************************************************)
(* The getopt loop (lines 155-203): one action per case of the switch.     *)
(* -h and unknown options print the usage and return; -d without ':'       *)
(* prints an error and returns; when getopt returns -1 the device walk     *)
(* starts.                                                                 *)
(***************************************************************************)
optVars == <<argv, di, ci, shown>>

\* The option getopt returns next.
Arg == argv[ai + 1]

GetOptEnd ==
    /\ pc = "opts"
    /\ ai = Len(argv)
    /\ pc' = "devs"
    /\ UNCHANGED <<ai, o, optVars>>

\* case '?', case 'h' (lines 157-160).
OptUsage ==
    /\ pc = "opts"
    /\ ai < Len(argv)
    /\ Arg.opt \in {"h", "?"}
    /\ ai' = ai + 1
    /\ pc' = "done"
    /\ UNCHANGED <<o, optVars>>

\* case 'v' (lines 161-163).
OptVerbose ==
    /\ pc = "opts"
    /\ ai < Len(argv)
    /\ Arg.opt = "v"
    /\ ai' = ai + 1
    /\ o' = [o EXCEPT !.flag = TRUE]
    /\ UNCHANGED <<pc, optVars>>

OptS ==
    /\ pc = "opts"
    /\ ai < Len(argv)
    /\ Arg.opt = "s"
    /\ ai' = ai + 1
    /\ o' = ParseS(Arg)
    /\ UNCHANGED <<pc, optVars>>

\* case 'd' without ':' (lines 184-188).
OptDBad ==
    /\ pc = "opts"
    /\ ai < Len(argv)
    /\ Arg.opt = "d" /\ ~Arg.colon
    /\ ai' = ai + 1
    /\ pc' = "done"
    /\ UNCHANGED <<o, optVars>>

OptD ==
    /\ pc = "opts"
    /\ ai < Len(argv)
    /\ Arg.opt = "d" /\ Arg.colon
    /\ ai' = ai + 1
    /\ o' = ParseD(Arg)
    /\ UNCHANGED <<pc, optVars>>

GetOpt == GetOptEnd \/ OptUsage \/ OptVerbose \/ OptS \/ OptDBad \/ OptD

\* Mutant: the bus and devnum tests joined by && instead of ||.
SkippedAnd(d) ==
    \/ (o.busSet /\ o.bus # d.bus) /\ (o.devnumSet /\ o.devnum # d.addr)
    \/ o.vendorSet /\ o.vendor # d.vendor
    \/ o.productSet /\ o.product # d.product

\* The two continue tests of the device loop (lines 206-214).
Skipped(d) ==
    \/ o.busSet /\ o.bus # d.bus
    \/ o.devnumSet /\ o.devnum # d.addr
    \/ o.vendorSet /\ o.vendor # d.vendor
    \/ o.productSet /\ o.product # d.product

\* Mutant: the device printed is the previous one.
DevStepShowPrev ==
    /\ pc = "devs"
    /\ IF di = Len(Devs)
          THEN pc' = "done" /\ UNCHANGED <<di, ci, shown>>
          ELSE /\ di' = di + 1
               /\ IF Skipped(Devs[di + 1])
                     THEN UNCHANGED <<pc, ci, shown>>
                     ELSE /\ shown' = Append(shown, di)
                          /\ IF o.flag THEN pc' = "cfg" /\ ci' = 0
                                       ELSE UNCHANGED <<pc, ci>>
    /\ UNCHANGED <<argv, ai, o>>

\* usb_dev_iterate, the filter, show_usb_dev and, with -v, the start of
\* the configuration loop (lines 205-222).
DevStep ==
    /\ pc = "devs"
    /\ IF di = Len(Devs)
          THEN pc' = "done" /\ UNCHANGED <<di, ci, shown>>
          ELSE LET d == Devs[di + 1] IN
               /\ di' = di + 1
               /\ IF Skipped(d)
                     THEN UNCHANGED <<pc, ci, shown>>
                     ELSE /\ shown' = Append(shown, di + 1)
                          /\ IF o.flag THEN pc' = "cfg" /\ ci' = 0
                                       ELSE UNCHANGED <<pc, ci>>
    /\ UNCHANGED <<argv, ai, o>>

(***************************************************************************)
(* One turn of the configuration loop (lines 222-229):                     *)
(* show_usb_desc_configuration (109-136) prints "No configurations" when   *)
(* config_buf is NULL; show_usb_desc_interface (72-107) then reads         *)
(* usb_iface[0]->iface_desc[0] whether or not usb_iface[0] is set, prints  *)
(* "No interfaces" if that descriptor is NULL and otherwise reads          *)
(* iface_desc[0] of each of the usb_iface_num interfaces. A configuration  *)
(* lists its interfaces; an empty list is a NULL usb_iface[0], and desc    *)
(* says whether an interface's iface_desc[0] is set.                       *)
(***************************************************************************)
IfaceFaults(c) ==
    \/ c.ifaces = << >>
    \/ c.ifaces[1].desc /\ \E k \in 1 .. Len(c.ifaces) : ~c.ifaces[k].desc

\* Mutant: conf_cnt is never incremented.
CfgStepNoNext ==
    /\ pc = "cfg"
    /\ IF ci = Len(Devs[di].cfgs)
          THEN pc' = "devs" /\ UNCHANGED ci
          ELSE IF IfaceFaults(Devs[di].cfgs[ci + 1])
                  THEN pc' = "crash" /\ UNCHANGED ci
                  ELSE UNCHANGED <<pc, ci>>
    /\ UNCHANGED <<argv, ai, o, di, shown>>

CfgStep ==
    /\ pc = "cfg"
    /\ IF ci = Len(Devs[di].cfgs)
          THEN pc' = "devs" /\ UNCHANGED ci
          ELSE IF IfaceFaults(Devs[di].cfgs[ci + 1])
                  THEN pc' = "crash" /\ UNCHANGED ci
                  ELSE ci' = ci + 1 /\ UNCHANGED pc
    /\ UNCHANGED <<argv, ai, o, di, shown>>

Next == GetOpt \/ DevStep \/ CfgStep

\* lsusb runs to completion: once started, each step is taken.
Spec == Init /\ [][Next]_vars /\ WF_vars(Next)

-----------------------------------------------------------------------------
TypeOK ==
    /\ argv \in Seq(Option)
    /\ ai \in 0 .. Len(argv)
    /\ pc \in {"opts", "devs", "cfg", "done", "crash"}
    /\ di \in 0 .. Len(Devs)
    /\ shown \in Seq(1 .. Len(Devs))
    /\ pc = "cfg" => di \in 1 .. Len(Devs) /\ ci \in 0 .. Len(Devs[di].cfgs)

\* The device walk ran to its end (getopt accepted every option).
WalkDone == pc = "done" /\ di = Len(Devs)

(***************************************************************************)
(* The device loop (lines 205-231) prints, in usb_dev_iterate order and    *)
(* once each, exactly the devices that agree with every filter the parsed  *)
(* options set: a device is never skipped by a filter that is unset or     *)
(* that it matches, and never shown when it fails one.                     *)
(***************************************************************************)
Agrees(d) ==
    /\ o.busSet => o.bus = d.bus
    /\ o.devnumSet => o.devnum = d.addr
    /\ o.vendorSet => o.vendor = d.vendor
    /\ o.productSet => o.product = d.product

ShowsMatching ==
    WalkDone =>
        /\ \A k \in 1 .. Len(Devs) : (\E j \in 1 .. Len(shown) : shown[j] = k)
                                    <=> Agrees(Devs[k])
        /\ \A j \in 1 .. Len(shown) - 1 : shown[j] < shown[j + 1]

(***************************************************************************)
(* The values the user asked for: the number in the last -s or -d argument *)
(* that sets a field, as written, or NoNum when no option sets it.         *)
(***************************************************************************)
Asked(setsIt(_), val(_)) ==
    LET ks == {k \in 1 .. Len(argv) : setsIt(argv[k]) /\ val(argv[k]) # NoNum}
    IN  IF ks = {} THEN NoNum
        ELSE val(argv[CHOOSE k \in ks : \A j \in ks : j <= k])

AskedBus == Asked(LAMBDA a : a.opt = "s" /\ a.colon, LAMBDA a : a.l)
AskedDevnum == Asked(LAMBDA a : a.opt = "s",
                     LAMBDA a : IF a.colon THEN a.r ELSE a.l)
AskedVendor == Asked(LAMBDA a : a.opt = "d", LAMBDA a : a.l)
AskedProduct == Asked(LAMBDA a : a.opt = "d", LAMBDA a : a.r)

FitsAsked(asked, v) == asked = NoNum \/ asked = v

(***************************************************************************)
(* print_usage (lines 16-22: "-s [[bus]:]devnum", "-d [vendor]:[product]") *)
(* promises the devices with the given bus, number, vendor and product:    *)
(* when the walk ends, a device is listed iff it has the values the user   *)
(* wrote. strtoul's unsigned long is stored in a uint16_t, so a value of   *)
(* 2^16 or more selects the device whose value is its low 16 bits.         *)
(***************************************************************************)
ShowsAsked ==
    WalkDone =>
        \A k \in 1 .. Len(Devs) :
            (\E j \in 1 .. Len(shown) : shown[j] = k)
            <=> /\ FitsAsked(AskedBus, Devs[k].bus)
                /\ FitsAsked(AskedDevnum, Devs[k].addr)
                /\ FitsAsked(AskedVendor, Devs[k].vendor)
                /\ FitsAsked(AskedProduct, Devs[k].product)

(***************************************************************************)
(* lsusb -v never dereferences NULL: show_usb_desc_configuration guards a  *)
(* configuration whose descriptor was not read, but show_usb_desc_interface*)
(* reads usb_iface[0] and each interface's iface_desc[0] unchecked.        *)
(***************************************************************************)
NoNullDeref == pc # "crash"

(***************************************************************************)
(* lsusb terminates: the option loop, the device walk and every            *)
(* configuration loop end.                                                 *)
(***************************************************************************)
Terminates == <>(pc \in {"done", "crash"})

=============================================================================

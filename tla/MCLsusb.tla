------------------------------- MODULE MCLsusb -------------------------------
(***************************************************************************)
(* Instances of Lsusb for TLC. Every command line of at most two options   *)
(* built from the numbers 1, 2 and 65537 (which a uint16_t stores as 1),   *)
(* over two or three devices on bus 1.                                     *)
(***************************************************************************)
EXTENDS Lsusb, TLC

Nums == {1, 2, 65537}
Part == Nums \cup {NoNum}

\* What getopt returns for -h, -v, -s ARG and -d ARG; '?' is an unknown letter.
Opts ==
    {[opt |-> c, colon |-> FALSE, l |-> NoNum, r |-> NoNum] : c \in {"h", "?", "v"}}
    \cup {[opt |-> c, colon |-> TRUE, l |-> x, r |-> y] :
             c \in {"s", "d"}, x \in Part, y \in Part}
    \cup {[opt |-> c, colon |-> FALSE, l |-> x, r |-> NoNum] :
             c \in {"s", "d"}, x \in Part}

MCCmdLines == {<< >>} \cup {<<a>> : a \in Opts} \cup {<<a, b>> : a, b \in Opts}

Iface(ok) == [desc |-> ok]
Cfg(ifs) == [ifaces |-> ifs]
Dev(b, a, v, p, cs) == [bus |-> b, addr |-> a, vendor |-> v, product |-> p, cfgs |-> cs]

\* Devices whose configurations were all read: one with an interface,
\* one whose first interface has no descriptor ("No interfaces").
MCGoodDevs ==
    << Dev(1, 1, 1, 2, << Cfg(<<Iface(TRUE)>>) >>),
       Dev(1, 2, 2, 2, << Cfg(<<Iface(FALSE)>>), Cfg(<<Iface(TRUE), Iface(TRUE)>>) >>) >>

\* A device whose configuration descriptor could not be read: config_buf
\* and usb_iface[0] are NULL.
MCUnreadDevs ==
    << Dev(1, 1, 1, 2, << Cfg(<<Iface(TRUE)>>) >>),
       Dev(1, 2, 2, 2, << Cfg(<< >>) >>) >>
=============================================================================

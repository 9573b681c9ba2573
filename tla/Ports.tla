------------------------------- MODULE Ports -------------------------------
(* From what is typed into the wizard, or into config.toml by hand, to the    *)
(* ports of a profile's listener: wizard_listen_ports and parse_port_range of *)
(* src/src/bin/port-forward.rs, and ListenPorts::project of src/src/config.rs.*)
(*                                                                            *)
(* Simplifications                                                            *)
(*  - Text that is not a number is rejected before anything here happens.     *)
(*  - project returns its ports in ascending order without duplicates, so a   *)
(*    set stands for the vector.                                              *)
EXTENDS Integers, SequencesExt

CONSTANTS
    MaxPort,        \* 65535 in the code
    Base,           \* 10 in the code
    WordSize,       \* 2^32 in the code: suffixes and powers are u32
    Unset,          \* a field the listener does not have
    Rejected,       \* an error
    Typed,          \* numbers people type as the ends of a range
    HandWritten     \* listeners people write into the file themselves

Port == 0..MaxPort
Word == 0..(WordSize - 1)

\* ListenPorts: both forms have their fields, unused ones are Unset.
ListenPorts == [start : Word \cup {Unset}, end : Word \cup {Unset},
                suffix : Word \cup {Unset}, ports : Seq(Port) \cup {Unset}]

\* u32::pow, before it wraps.
Power[w \in Nat] == IF w = 0 THEN 1 ELSE Base * Power[w - 1]

\* Every port has fewer digits than the longest suffix (5 and 10 in the code).
ASSUME PowerAssumption == \E w \in 1..WordSize : MaxPort < Power[w] /\ Power[w] < WordSize

ASSUME PortsAssumption ==
    /\ MaxPort \in Nat /\ Base \in Nat /\ WordSize \in Nat
    /\ Base > 1 /\ MaxPort > 1 /\ WordSize > MaxPort + 1
    /\ Typed \subseteq Word /\ HandWritten \subseteq ListenPorts
    /\ Unset \notin Word \cup Seq(Port) /\ Rejected \notin ListenPorts

\* wizard_listen_ports: the mode and the numbers typed.
Entry == [mode : {"single"}, start : Typed, end : {0}, suffix : {0}]
         \cup [mode : {"range"}, start : Typed, end : Typed, suffix : {0}]
         \cup [mode : {"suffix"}, start : Typed, end : Typed, suffix : Word]

Explicit(ports) ==
    [start |-> Unset, end |-> Unset, suffix |-> Unset, ports |-> ports]
Suffixed(start, end, suffix) ==
    [start |-> start, end |-> end, suffix |-> suffix, ports |-> Unset]

--------------------------------------------------------------------------
Lowest(x, y) == IF x <= y THEN x ELSE y

\* Mutant: zero has no digits.
WidthWithoutZero(value) ==
    IF value = 0 THEN 0
    ELSE CHOOSE w \in 1..WordSize : Power[w] > value /\ (w = 1 \/ Power[w - 1] <= value)

\* The number of digits; zero has one.  Suffixes are shorter than WordSize.
DecimalWidth(value) ==
    CHOOSE w \in 1..WordSize : Power[w] > value /\ (w = 1 \/ Power[w - 1] <= value)

\* 10_u32.pow: a release build wraps, a build with overflow checks ends here.
Modulus(suffix) == Power[DecimalWidth(suffix)] % WordSize

\* The right-open range of a suffix listener.
RangeAllowed(start, end) ==
    start \in 1..MaxPort /\ end \in 2..(MaxPort + 1) /\ start < end

\* Mutant: the range is closed on the right.
EndsInClosed(start, end, suffix) ==
    {port \in start..end : port % Modulus(suffix) = suffix}

EndsIn(start, end, suffix) ==
    LET modulus == Modulus(suffix)
    IN  {port \in start..(end - 1) : port % modulus = suffix}

ProjectRange(listen) ==
    LET ports == EndsIn(listen.start, listen.end, listen.suffix)
    IN  IF /\ RangeAllowed(listen.start, listen.end)
           /\ listen.suffix < Modulus(listen.suffix)
           /\ ports # {}
          THEN ports ELSE Rejected

ProjectExplicit(ports) ==
    IF ports # <<>> /\ IsInjective(ports) THEN Range(ports) ELSE Rejected

\* ListenPorts::project: exactly one of the two forms, and all of it.
Project(listen) ==
    LET range == {listen.start, listen.end, listen.suffix}
    IN  IF listen.ports = Unset /\ Unset \notin range THEN ProjectRange(listen)
        ELSE IF listen.ports # Unset /\ range = {Unset} THEN ProjectExplicit(listen.ports)
        ELSE Rejected

--------------------------------------------------------------------------
\* Mutant: an inclusive end is taken for an exclusive one.
ParseRangeOpen(start, end, inclusiveEnd) ==
    IF start \in 1..MaxPort /\ end \in 2..(MaxPort + 1) /\ start < end
      THEN <<start, IF inclusiveEnd THEN end - 1 ELSE Lowest(end, MaxPort)>>
      ELSE Rejected

\* parse_port_range: the end is narrowed to u16, MaxPort + 1 becomes MaxPort.
ParsePortRange(start, end, inclusiveEnd) ==
    IF /\ start \in 1..MaxPort
       /\ end \in 2..(IF inclusiveEnd THEN MaxPort ELSE MaxPort + 1)
       /\ start < end
      THEN <<start, Lowest(end, MaxPort)>> ELSE Rejected

\* The listener of one entry, before the wizard projects it to see that it works.
Listener(e) ==
    LET range == ParsePortRange(e.start, e.end, e.mode = "range")
    IN  IF e.mode = "single"
          THEN IF e.start \in 1..MaxPort THEN Explicit(<<e.start>>) ELSE Rejected
        ELSE IF range = Rejected THEN Rejected
        ELSE IF e.mode = "range"
          THEN Explicit([i \in 1..(range[2] - range[1] + 1) |-> range[1] + i - 1])
          ELSE Suffixed(range[1], range[2], e.suffix)

--------------------------------------------------------------------------
VARIABLES
    entry,      \* what was typed, Unset when the file was edited by hand
    listen,     \* the listener in the file, Rejected when the wizard refused
    ports       \* what the daemon and the CLI make of it

vars == <<entry, listen, ports>>

Pending == {}

Init == entry = Unset /\ listen = Rejected /\ ports = Pending

WizardListenPorts ==
    /\ listen = Rejected /\ entry = Unset
    /\ entry' \in Entry
    /\ LET l == Listener(entry') IN
         listen' = IF l # Rejected /\ Project(l) # Rejected THEN l ELSE Rejected
    /\ UNCHANGED ports

EditByHand ==
    /\ listen = Rejected /\ entry = Unset
    /\ listen' \in HandWritten
    /\ UNCHANGED <<entry, ports>>

ValidateProfile ==
    /\ listen # Rejected /\ ports = Pending
    /\ ports' = Project(listen)
    /\ UNCHANGED <<entry, listen>>

Next == WizardListenPorts \/ EditByHand \/ ValidateProfile
Spec == Init /\ [][Next]_vars

--------------------------------------------------------------------------
(* Reference definitions: digits, as people read them.                       *)
Digits[n \in Nat] ==
    IF n < Base THEN <<n>> ELSE Append(Digits[n \div Base], n % Base)

WrittenWith(suffix, range) == {p \in range : IsSuffix(Digits[suffix], Digits[p])}

\* What the person at the wizard asked for; in suffix mode the range is
\* right-open (the prompt's own words).
Asked(e) ==
    CASE e.mode = "single" -> {e.start} \cap (1..MaxPort)
      [] e.mode = "range" -> e.start..e.end
      [] e.mode = "suffix" -> WrittenWith(e.suffix, e.start..(e.end - 1))

--------------------------------------------------------------------------
Validated == ports \notin {Pending, Rejected}

\* The variables keep their types: a validated listener has ports, and they are
\* port numbers whatever was typed or written.
TypeOK ==
    /\ entry \in Entry \cup {Unset}
    /\ listen \in ListenPorts \cup {Rejected}
    /\ Validated => ports \subseteq Port

\* A range listener stands for the ports of its right-open range that are written
\* with the suffix as their last digits, and is rejected only if there are none:
\* the modulus arithmetic, its width at powers of ten and its wrapped power
\* included (ListenPorts::project).
ProjectionEndsInSuffix ==
    (ports # Pending /\ listen.ports = Unset /\
     Unset \notin {listen.start, listen.end, listen.suffix}) =>
        LET meant == IF RangeAllowed(listen.start, listen.end)
                       THEN WrittenWith(listen.suffix, listen.start..(listen.end - 1))
                       ELSE {}
        IN  ports = IF meant = {} THEN Rejected ELSE meant

\* The wizard never writes a listener the daemon then rejects, and it forwards no
\* port that was not asked for; what it leaves out is at most the highest port
\* of a suffix range.
WizardAddsNothing ==
    (entry # Unset /\ ports # Pending) =>
        /\ ports # Rejected
        /\ ports \subseteq Asked(entry)
        /\ Asked(entry) \ ports \subseteq
              (IF entry.mode = "suffix" THEN {MaxPort} ELSE {})

\* What the documentation says of an end of 65536: the listener covers port 65535
\* when its digits match (parse_port_range and the suffix prompt).
WizardCoversRange ==
    (entry # Unset /\ Validated) => Asked(entry) \subseteq ports
=============================================================================

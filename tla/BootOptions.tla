---------------------------- MODULE BootOptions ----------------------------
(***************************************************************************)
(* Boot#### options, BootOrder and BootNext, as read and rewritten by      *)
(* OcBootManagementLib/DefaultEntryChoice.c and OcVariableLib.             *)
(*                                                                         *)
(* One namespace of boot variables (the firmware's Boot####, or OpenCore's *)
(* own OCBt####) is a record: `order' is BootOrder (<<>> when absent),     *)
(* `next' is BootNext, `opts[i]' is the path Boot#### number i leads to.   *)
(* A device path is one value: the options and the boot entries are        *)
(* compared by path only.  An operation that writes several variables is   *)
(* the sequence of the namespaces it leaves behind, one per write, so that *)
(* a power loss can be placed between any two of them.                     *)
(***************************************************************************)
EXTENDS Naturals, Sequences, FiniteSets, SequencesExt

CONSTANTS
    Indices,   \* numbers a Boot#### option may have
    Highest,   \* 0xFFFF, the last of them
    Own,       \* 0x80, the number OpenCore and macOS write their choice to
    Entries,   \* paths of the systems the picker can start
    Loader,    \* path of the OpenCore launcher on this disk
    OldLoader, \* a launcher path with the same suffix on another disk
    NoPath     \* the variable does not exist

ASSUME BootOptionsAssumption ==
    /\ Indices \subseteq Nat \ {0}
    /\ {Own, Highest} \subseteq Indices /\ \A i \in Indices : i <= Highest
    /\ Cardinality(Entries \cup {Loader, OldLoader, NoPath}) = Cardinality(Entries) + 3

Options == Entries \cup {Loader, OldLoader, NoPath}

NoNext == 0

NoVariables == [order |-> <<>>, next |-> NoNext, opts |-> [i \in Indices |-> NoPath]]

LowestOf(S) == CHOOSE n \in S : \A m \in S : n <= m

\* Mutant: BootOrder is taken as it was stored.
Verbatim(s) == s

\* The loop that drops a BootOrder element equal to an earlier one.
Deduplicated(s) ==
    FoldLeft(LAMBDA seen, i : IF i \in ToSet(seen) THEN seen ELSE Append(seen, i), <<>>, s)

OcGetBootOrder(vars, withBootNext) ==
    Deduplicated(
        (IF withBootNext /\ vars.next # NoNext THEN <<vars.next>> ELSE <<>>) \o vars.order)

\* Mutant: BootNext stays behind after it was read.
NextKept(vars) == vars

InternalClearNextVariables(vars) == [vars EXCEPT !.next = NoNext]

\* The entry the picker preselects: the first option that leads to an entry,
\* and the first blessed filesystem when no option does.
DefaultEntry(vars, order, blessed) ==
    LET found == {k \in DOMAIN order : vars.opts[order[k]] \in Entries}
    IN  IF found = {} THEN blessed ELSE vars.opts[order[LowestOf(found)]]

Swapped(s, i, j) == [s EXCEPT ![i] = s[j], ![j] = s[i]]

\* The positions of BootOrder whose option is the chosen entry.
Matches(vars, order, entry) == {k \in DOMAIN order : vars.opts[order[k]] = entry}

\* Where the search loop of OcSetDefaultBootEntry stops: Len(order) + 1 stands
\* for its Index = BootOrderCount.  Once an entry matched the loop goes on until
\* 0x80 was seen, and it is the loop variable that is used afterwards.
LoopEnd(order, hits) ==
    LowestOf({Len(order) + 1} \cup
             {k \in (LowestOf(hits) + 1)..Len(order) : Own \in ToSet(SubSeq(order, 1, k))})

ChosenIndex(vars, order, entry) ==
    LET hits == Matches(vars, order, entry)
        own  == {k \in DOMAIN order : order[k] = Own}
    IN  IF hits # {} THEN LoopEnd(order, hits)
        ELSE LowestOf(own \cup {Len(order) + 1})

\* Mutant: the new option is put behind the present order.
AppendedOrder(order, chosen) ==
    IF chosen <= Len(order) THEN Swapped(order, 1, chosen) ELSE Append(order, Own)

NewBootOrder(order, chosen) ==
    IF chosen <= Len(order) THEN Swapped(order, 1, chosen) ELSE <<Own>> \o order

\* The states OcSetDefaultBootEntry goes through: Boot0080 (only when no listed
\* option matches), then BootOrder.
OcSetDefaultBootEntry(vars, entry) ==
    LET order  == OcGetBootOrder(vars, FALSE)
        named  == IF Matches(vars, order, entry) = {} THEN [vars EXCEPT !.opts[Own] = entry]
                  ELSE vars
    IN  <<vars, named,
          [named EXCEPT !.order = NewBootOrder(order, ChosenIndex(vars, order, entry))]>>

\* Mutant: a free number is looked for behind the first one of the order.
NextAfterFirst(order) == LowestOf(Indices \ (IF order = <<>> THEN {} ELSE {order[1]}))

\* The lowest number BootOrder does not list, and 0xFFFF when it lists all others.
FreeIndex(order) == LowestOf((Indices \ ToSet(order)) \cup {Highest})

\* The states InternalRegisterBootstrapBootOption goes through: the option,
\* then BootOrder with the option in front.
InternalRegisterBootstrapBootOption(vars) ==
    LET found == {k \in DOMAIN vars.order : vars.opts[vars.order[k]] \in {Loader, OldLoader}}
        index == IF found = {} THEN FreeIndex(vars.order) ELSE vars.order[LowestOf(found)]
        named == [vars EXCEPT !.opts[index] = Loader]
    IN  <<vars, named,
          [named EXCEPT !.order =
              IF vars.order # <<>> /\ vars.order[1] = index THEN vars.order
              ELSE <<index>> \o SelectSeq(vars.order, LAMBDA i : i # index)]>>

\* Mutant: the deleted options are not followed by a new launcher option.
NothingPreserved(vars) == NoVariables

\* Boot0001 and BootOrder as OcDeleteVariables writes them back for the launcher.
Preserved(vars) ==
    [NoVariables EXCEPT !.order = <<1>>, !.opts[1] = vars.opts[vars.order[1]]]

\* The states the firmware namespace goes through in OcDeleteVariables: the scan
\* deletes BootNext, and unless boot options are preserved BootOrder and Boot####
\* in the order the firmware lists them; with the launcher protected the option
\* that was first in BootOrder is written back as Boot0001.
OcDeleteVariables(vars, preserveBoot, bootProtect) ==
    LET noNext == InternalClearNextVariables(vars)
        first  == IF vars.order = <<>> THEN NoPath ELSE vars.opts[vars.order[1]]
    IN  IF preserveBoot THEN {<<vars, noNext>>}
        ELSE {<<vars, noNext, half, NoVariables>> \o
              (IF bootProtect /\ first # NoPath
               THEN <<[NoVariables EXCEPT !.opts[1] = first], Preserved(vars)>> ELSE <<>>) :
              half \in {[noNext EXCEPT !.order = <<>>], [NoVariables EXCEPT !.order = vars.order]}}
=============================================================================

---------------------------- MODULE MCBootCycle ----------------------------
(***************************************************************************)
(* BootCycle on a machine with a system and an installer, over three       *)
(* boots, in flash and with emulated NVRAM.                                *)
(***************************************************************************)
EXTENDS BootCycle

CONSTANTS mac, installer

MCEntries == {mac, installer}
MCIndices == {1, 2, 3, 128, 65535}
MCOsIndices == {2, 128}
MCInstallers == {installer}

Setup(emulated, routing, launcher, drivers, both, preserve) ==
    [emulated |-> emulated, routing |-> routing, launcher |-> launcher,
     drivers |-> drivers, both |-> both, preserve |-> preserve]

MCSetups ==
    {Setup(FALSE, FALSE, FALSE, TRUE, FALSE, FALSE),
     Setup(FALSE, TRUE, TRUE, TRUE, FALSE, FALSE),
     Setup(FALSE, TRUE, TRUE, FALSE, FALSE, TRUE),
     Setup(TRUE, FALSE, FALSE, FALSE, TRUE, FALSE),
     Setup(TRUE, TRUE, FALSE, FALSE, FALSE, FALSE)}

Option(i, path) == [NoVariables EXCEPT !.opts[i] = path]

\* One system listed, alone or before a launcher of another disk; power lost in
\* a reset makes the order empty.
MCFactory ==
    {[Option(1, mac) EXCEPT !.order = <<1>>],
     [Option(1, mac) EXCEPT !.order = <<1, 2>>, !.opts[2] = OldLoader]}
=============================================================================

----------------------------- MODULE BootCycle -----------------------------
(***************************************************************************)
(* One machine over several boots: OpenCore starts, restores emulated      *)
(* NVRAM, registers its launcher, lists boot options, lets a default be    *)
(* chosen, starts an entry; the entry returns, or a system runs that       *)
(* changes boot variables and saves them; power may fail inside any of     *)
(* the handlers that write more than once.                                 *)
(*                                                                         *)
(* nv.efi and nv.oc are the firmware's (Boot####) and OpenCore's own       *)
(* (OCBt####) boot variables, in flash, or in memory when NVRAM is         *)
(* emulated; nv.files is the directory of the emulated NVRAM files.        *)
(* OpenCore runs on one thread with nothing else writing boot variables,   *)
(* so a handler is one action; a power failure inside it leaves any        *)
(* earlier state of its run.                                               *)
(***************************************************************************)
EXTENDS BootOptions, NvramFiles

CONSTANTS
    Setups,      \* configurations: see SetupOK
    Factory,     \* firmware boot variables a machine may start with
    Blessed,     \* the entry found first when no boot option leads to one
    Installers,  \* the entries with IsAppleInstaller
    OsIndices,   \* option numbers a running system writes to
    MaxBoots,    \* bound on the number of boots
    MaxMoves     \* bound on what users and systems do to boot variables

SetupOK(s) ==
    /\ \A f \in {"emulated", "routing", "launcher", "drivers", "both", "preserve"} : s[f] \in BOOLEAN
    /\ s.launcher => s.routing /\ ~s.emulated

ASSUME BootCycleAssumption ==
    /\ \A s \in Setups : SetupOK(s)
    /\ Blessed \in Entries
    /\ Installers \subseteq Entries
    /\ OsIndices \subseteq Indices
    /\ {MaxBoots, MaxMoves} \subseteq Nat

VARIABLES
    setup,     \* the configuration, fixed at Init
    nv,        \* [efi, oc, files]
    phase,     \* "off", "picker" (top of its loop), "menu", "chosen", "system"
    running,   \* the entry chosen or started
    redirect,  \* BootVariableRedirect of OpenRuntime's main configuration
    order,     \* Context->BootOrder, <<>> for NULL
    gen,       \* number of saves so far
    boots,     \* number of boots so far
    moves,     \* number of the changes of boot variables asked for so far
    want,      \* ghost: the default chosen in the picker and still in force
    due,       \* ghost: a system asked for BootNext and it was not honoured yet
    retired,   \* ghost: saves that must not be loaded any more
    upsets     \* ghost: what went wrong, or was done by hand, so far

vars == <<setup, nv, phase, running, redirect, order, gen, boots, moves, want, due, retired, upsets>>

NoWant == [entry |-> NoPath, listed |-> FALSE]

\* The variables OpenCore itself reads and writes (Context->CustomBootGuid).
OwnSpace == IF setup.routing THEN "oc" ELSE "efi"

\* The variables that Boot#### names reach through OpenRuntime's wrappers.
VisibleSpace == IF redirect THEN "oc" ELSE "efi"

Init ==
    /\ setup \in Setups
    /\ nv \in [efi : IF setup.emulated THEN {NoVariables} ELSE Factory,
               oc : {NoVariables}, files : {NoFiles}]
    /\ phase = "off" /\ running = NoPath /\ redirect = FALSE /\ order = <<>>
    /\ gen = 0 /\ boots = 0 /\ moves = 0
    /\ want = NoWant /\ due = FALSE /\ retired = {} /\ upsets = {}

\* `what' is recorded, if one of the properties of this setup tells it apart.
Upset(what) ==
    upsets \cup (IF setup.emulated THEN {what} \cap {"cut", "disk", "script", "touch"} ELSE {})
           \cup (IF setup.launcher THEN {what} \cap {"cut", "tool", "unregistered"} ELSE {})

\* One more change of boot variables is asked for.
Move == moves < MaxMoves /\ moves' = moves + 1

\* Power goes off, or the machine is reset, with `left' as the last state:
\* variables in memory are gone.
Off(left) ==
    /\ nv' = IF setup.emulated THEN [left EXCEPT !.efi = NoVariables, !.oc = NoVariables] ELSE left
    /\ phase' = "off" /\ running' = NoPath /\ redirect' = FALSE /\ order' = <<>>
    /\ UNCHANGED <<setup, gen, boots, due>>

\* Power fails inside a handler, after one of its steps but the last.
Cut(steps) ==
    /\ \E k \in 1..(Len(steps) - 1) : Off(steps[k])
    /\ want' = NoWant /\ upsets' = Upset("cut")
    /\ UNCHANGED retired

\* Power is switched off, or the system restarts, between two handlers.
PowerOff ==
    /\ phase # "off"
    /\ Off(nv)
    /\ UNCHANGED <<moves, want, retired, upsets>>

\* OcLoadLegacyNvram: the variables go to where boot variables are looked for.
Restored ==
    LET file == LoadNvram(nv.files)
    IN  IF setup.emulated /\ file.kind = "saved" THEN [nv EXCEPT ![OwnSpace] = file.vars] ELSE nv

\* The part of OcMain that concerns boot variables: NVRAM is restored, the
\* launcher option registered, drivers are started.  A registration that fails at
\* the option or at BootOrder is passed over.
OcMain ==
    LET steps == IF setup.launcher
                 THEN [k \in 1..3 |-> [Restored EXCEPT
                          !.efi = InternalRegisterBootstrapBootOption(Restored.efi)[k]]]
                 ELSE <<Restored>>
    IN  /\ phase = "off" /\ UNCHANGED moves /\ boots < MaxBoots
        /\ \/ \E k \in DOMAIN steps :
              /\ nv' = steps[k]
              /\ phase' = "picker" /\ boots' = boots + 1
              /\ redirect' = (setup.routing /\ setup.drivers)
              /\ upsets' = IF k < Len(steps) THEN Upset("unregistered")
                           ELSE IF setup.launcher THEN upsets \ {"cut", "tool", "unregistered"}
                           ELSE upsets
              /\ UNCHANGED <<setup, running, order, gen, want, due, retired>>
           \/ Cut(steps)

\* OcScanForBootEntries: BootOrder, with BootNext in front, is read once and
\* cached; BootNext is deleted as soon as it was read.
OcScanForBootEntries ==
    /\ phase = "picker" /\ phase' = "menu"
    /\ IF order = <<>>
       THEN /\ order' = OcGetBootOrder(nv[OwnSpace], TRUE)
            /\ nv' = [nv EXCEPT ![OwnSpace] = InternalClearNextVariables(@)]
            /\ due' = (due /\ nv[OwnSpace].next = NoNext)
       ELSE UNCHANGED <<order, nv, due>>
    /\ UNCHANGED <<setup, moves, running, redirect, gen, boots, want, retired, upsets>>

\* An entry is chosen for this boot only.
Choose(entry) ==
    /\ phase = "menu" /\ phase' = "chosen" /\ running' = entry
    /\ UNCHANGED <<setup, moves, nv, redirect, order, gen, boots, want, due, retired, upsets>>

\* OcSaveLegacyNvram after the boot variables `own' were written: what is saved
\* are the variables visible under Boot#### names.
SavedAfter(own) ==
    LET now == [nv EXCEPT ![OwnSpace] = own]
    IN  IF setup.emulated
        THEN {Run(r.ok, [k \in DOMAIN r.steps |-> [now EXCEPT !.files = r.steps[k]]]) :
              r \in SaveNvram(nv.files, gen + 1, now[VisibleSpace])}
        ELSE {Run(TRUE, <<now>>)}

\* The runs of OcSetDefaultBootEntry with the save at its end.  It returns
\* early when Boot0080 cannot be written or memory runs out, and goes on to
\* save when BootOrder cannot be written.
DefaultRuns(entry) ==
    LET own   == OcSetDefaultBootEntry(nv[OwnSpace], entry)
        after == [k \in DOMAIN own |-> [nv EXCEPT ![OwnSpace] = own[k]]]
    IN  {Run(FALSE, SubSeq(after, 1, k)) : k \in 1..2} \cup
        {Run(FALSE, SubSeq(after, 1, 2) \o r.steps) : r \in SavedAfter(own[2])} \cup
        {Run(r.ok, after \o r.steps) : r \in SavedAfter(own[3])}

\* An entry is chosen as the default (CTRL+Enter).  The promise is recorded
\* unless the save could not see the variables that were written.
SetDefault(entry) ==
    /\ Move /\ phase = "menu"
    /\ \E r \in DefaultRuns(entry) :
       \/ /\ nv' = Last(r.steps)
          /\ phase' = "chosen" /\ running' = entry
          /\ gen' = IF setup.emulated THEN gen + 1 ELSE gen
          /\ want' = IF r.ok /\ ~(setup.emulated /\ OwnSpace # VisibleSpace)
                     THEN [entry |-> entry,
                           listed |-> Matches(nv[OwnSpace], nv[OwnSpace].order, entry) # {}]
                     ELSE NoWant
          /\ upsets' = IF r.ok THEN upsets ELSE Upset("disk")
          /\ UNCHANGED <<setup, redirect, order, boots, due, retired>>
       \/ Cut(r.steps)

\* OcSwitchToFallbackLegacyNvram, before an installer is started.
SwitchRuns ==
    IF setup.emulated /\ running \in Installers
    THEN {Run(r.ok, [k \in DOMAIN r.steps |-> [nv EXCEPT !.files = r.steps[k]]]) :
          r \in SwitchToFallback(nv.files)}
    ELSE {Run(TRUE, <<nv>>)}

\* OcLoadBootEntry once the image is loaded: StartImage turns redirection on,
\* and the image either returns to the picker or becomes the running system.
OcLoadBootEntry ==
    /\ phase = "chosen" /\ UNCHANGED moves
    /\ \E r \in SwitchRuns :
       \/ /\ nv' = Last(r.steps)
          /\ redirect' = (redirect \/ setup.routing)
          /\ \/ phase' = "picker" /\ running' = NoPath
             \/ phase' = "system" /\ running' = running
          /\ retired' = IF r.ok /\ nv'.files # nv.files /\ nv.files.plist.kind = "saved"
                        THEN retired \cup {nv.files.plist.gen} ELSE retired
          /\ want' = IF nv'.files = nv.files THEN want ELSE NoWant
          /\ upsets' = IF r.ok THEN upsets ELSE Upset("disk")
          /\ UNCHANGED <<setup, order, gen, boots, due>>
       \/ Cut(r.steps)

\* The image cannot be loaded: the picker is shown again.
LoadImageFails ==
    /\ phase = "chosen" /\ phase' = "picker" /\ running' = NoPath
    /\ UNCHANGED <<setup, moves, nv, redirect, order, gen, boots, want, due, retired, upsets>>

\* Option i is made to lead to `entry' and put first.
Listed(space, i, entry) ==
    [space EXCEPT !.opts[i] = entry, !.order = <<i>> \o SelectSeq(@, LAMBDA j : j # i)]

\* A tool with FullNvramAccess edits the firmware's variables and returns.
RunTool(i, entry) ==
    /\ Move /\ phase = "menu" /\ phase' = "picker"
    /\ nv' = [nv EXCEPT !.efi = Listed(@, i, entry)]
    /\ redirect' = (redirect \/ setup.routing)
    /\ want' = IF setup.routing THEN want ELSE NoWant
    /\ upsets' = Upset("tool")
    /\ UNCHANGED <<setup, running, order, gen, boots, due, retired>>

\* The runs of SystemActionResetNvram: the emulated NVRAM files, or the boot
\* variables, OpenCore's own in any order relative to the firmware's; the
\* variables written back for the launcher may fail.
ResetRuns ==
    LET scanned == IF setup.preserve THEN 2 ELSE 4     \* where the scan ends
    IN
    IF setup.emulated
    THEN {Run(r.ok, <<nv>> \o [k \in DOMAIN r.steps |-> [nv EXCEPT !.files = r.steps[k]]]) :
          r \in ResetNvram(nv.files)}
    ELSE UNION {{Run(n = Len(t), [k \in 1..n |->
                               [nv EXCEPT !.efi = t[k], !.oc = IF k < own THEN @ ELSE NoVariables]]) :
                 own \in 2..scanned, n \in scanned..Len(t)} :
                t \in OcDeleteVariables(nv.efi, setup.preserve, setup.launcher)}

\* NVRAM is reset and the machine with it.
SystemActionResetNvram ==
    /\ Move /\ phase = "menu"
    /\ \E r \in ResetRuns :
       \/ /\ Off(Last(r.steps))
          /\ want' = NoWant
          /\ retired' = IF r.ok THEN retired \cup 1..gen ELSE retired
          /\ upsets' = IF r.ok THEN upsets
                       ELSE Upset(IF setup.emulated THEN "disk" ELSE "unregistered")
       \/ Cut(r.steps)

\* The running system makes `entry' the default (WrapSetVariable).
OsSetDefault(i, entry) ==
    /\ Move /\ phase = "system"
    /\ nv' = [nv EXCEPT ![VisibleSpace] = Listed(@, i, entry)]
    /\ want' = NoWant
    /\ UNCHANGED <<setup, phase, running, redirect, order, gen, boots, due, retired, upsets>>

\* The running system asks for one boot through option i.
OsSetNext(i) ==
    /\ Move /\ phase = "system" /\ nv[VisibleSpace].opts[i] # NoPath
    /\ nv' = [nv EXCEPT ![VisibleSpace].next = i]
    /\ due' = TRUE
    /\ UNCHANGED <<setup, phase, running, redirect, order, gen, boots, want, retired, upsets>>

\* Launchd.command saves emulated NVRAM from within macOS; it may stop early.
LaunchdSave ==
    LET steps == saveNvram(nv.files, gen + 1, nv[VisibleSpace])
    IN  /\ Move /\ phase = "system" /\ setup.emulated /\ running \notin Installers
        /\ \E k \in DOMAIN steps :
           /\ nv' = [nv EXCEPT !.files = steps[k]]
           /\ want'   = IF k = Len(steps) THEN want ELSE NoWant
           /\ upsets' = IF k = Len(steps) THEN upsets ELSE Upset("script")
        /\ gen' = gen + 1
        /\ UNCHANGED <<setup, phase, running, redirect, order, boots, due, retired>>

\* With both an agent and a daemon installed, the agent touches nvram.plist.
LaunchdTouch ==
    /\ Move /\ phase = "system" /\ setup.emulated /\ setup.both /\ running \notin Installers
    /\ nv' = [nv EXCEPT !.files = touchNvram(@)]
    /\ upsets' = IF nv.files.plist = Absent THEN Upset("touch") ELSE upsets
    /\ UNCHANGED <<setup, phase, running, redirect, order, gen, boots, want, due, retired>>

Next ==
    \/ OcMain
    \/ OcScanForBootEntries
    \/ \E e \in Entries : Choose(e) \/ SetDefault(e)
    \/ OcLoadBootEntry
    \/ LoadImageFails
    \/ \E i \in OsIndices, e \in Entries : RunTool(i, e) \/ OsSetDefault(i, e)
    \/ \E i \in Indices : OsSetNext(i)
    \/ SystemActionResetNvram
    \/ LaunchdSave
    \/ LaunchdTouch
    \/ PowerOff

Spec == Init /\ [][Next]_vars

-----------------------------------------------------------------------------
Variables ==
    [order : UNION {[1..n -> Indices] : n \in 0..(Cardinality(Indices) + 1)},
     next : Indices \cup {NoNext}, opts : [Indices -> Options]]

\* The type invariant.  BootOrder holds at most one repeated number, the one
\* OcSetDefaultBootEntry puts in front of an order that lists it already, however
\* often defaults are chosen: the order is deduplicated when it is read.
TypeOK ==
    /\ setup \in Setups
    /\ \A v \in {nv.efi, nv.oc} :
          v \in Variables /\ Len(v.order) <= Cardinality(ToSet(v.order)) + 1
    /\ \A f \in {"plist", "fallback", "used"} :
          nv.files[f].kind = "saved" => nv.files[f].gen \in 1..gen /\ nv.files[f].vars \in Variables
    /\ phase \in {"off", "picker", "menu", "chosen", "system"}
    /\ running \in Entries \cup {NoPath}
    /\ redirect \in BOOLEAN
    /\ ToSet(order) \subseteq Indices
    /\ gen \in 0..moves /\ moves \in 0..MaxMoves /\ boots \in 0..MaxBoots
    /\ want.entry \in Entries \cup {NoPath} /\ want.listed \in BOOLEAN
    /\ due \in BOOLEAN
    /\ retired \subseteq 1..gen
    /\ upsets \subseteq {"cut", "disk", "script", "touch", "tool", "unregistered"}

\* A scan that reads BootOrder anew, as the first one of every boot does.
FreshScan == phase = "picker" /\ phase' = "menu" /\ order = <<>>

\* The entry chosen as the default in the picker is the one preselected by
\* every later boot that has no BootNext, across restarts, other entries being
\* started, firmware variables being edited while routing is on, and saves and
\* reloads of emulated NVRAM; until a system chooses another default, NVRAM is
\* reset, its file is retired, or a write failed.  Stated for entries no option
\* of BootOrder led to when they were chosen (OcSetDefaultBootEntry writes
\* Boot0080 and puts it first); DefaultIsSet states it for all.
DefaultHonoured ==
    [][FreshScan /\ want.entry # NoPath /\ ~want.listed /\ nv[OwnSpace].next = NoNext
         => DefaultEntry(nv'[OwnSpace], order', Blessed) = want.entry]_vars

\* "Set default entry to passed entry." (OcBootManagementLib.h, the contract of
\* OcSetDefaultBootEntry), for every entry of the picker.
DefaultIsSet ==
    [][FreshScan /\ want.entry # NoPath /\ nv[OwnSpace].next = NoNext
         => DefaultEntry(nv'[OwnSpace], order', Blessed) = want.entry]_vars

\* With NVRAM in flash, a BootNext a system asked for is honoured by one scan at
\* most, whatever returns to the picker, fails or loses power in between:
\* InternalClearNextVariables runs in the handler that read it.
BootNextOnce ==
    [][FreshScan /\ ~setup.emulated /\ nv[OwnSpace].next # NoNext => due]_vars

\* The launcher is what the firmware starts first: neither a running system,
\* whose Boot#### writes are redirected, nor a default chosen in the picker, nor
\* an NVRAM reset displaces it.  Only a tool with full NVRAM access, a failed
\* write, or power lost in the middle of registering or resetting can, and the
\* next registration that succeeds makes up for all of these.
LauncherKept ==
    setup.launcher /\ boots > 0 /\ upsets \cap {"cut", "tool", "unregistered"} = {}
        => nv.efi.order # <<>> /\ nv.efi.opts[nv.efi.order[1]] = Loader

\* With boot variable routing no step but an NVRAM reset or a tool with full
\* access drops or redefines a firmware boot option that BootOrder lists, and
\* neither does a power failure in the middle of one: the launcher takes a
\* number BootOrder does not use, and all other writes go to OCBt#### variables.
FirmwareKept ==
    [][\/ ~setup.routing \/ setup.emulated
       \/ \A i \in ToSet(nv.efi.order) :
             /\ i \in ToSet(nv'.efi.order)
             /\ nv.efi.opts[i] \in {Loader, OldLoader} \/ nv'.efi.opts[i] = nv.efi.opts[i]
       \/ SystemActionResetNvram
       \/ \E i \in OsIndices, e \in Entries : RunTool(i, e)]_vars

\* Emulated NVRAM that started an installer, or was reset, is not loaded again:
\* not through nvram.plist, and not through the copy in nvram.fallback, unless
\* Launchd.command stopped between its two copies.
RetiredOnce ==
    LET file == LoadNvram(nv.files)
    IN  phase = "off" /\ file.kind = "saved" /\ "script" \notin upsets => file.gen \notin retired

\* As long as every write succeeds, the next boot loads what was saved last,
\* whether the picker or Launchd.command saved it; the fallback is taken only
\* in place of a save that was retired.
NewestLoaded ==
    LET file == LoadNvram(nv.files)
    IN  phase = "off" /\ upsets = {} /\ gen \notin retired \cup {0}
            => file.kind = "saved" /\ file.gen = gen
=============================================================================

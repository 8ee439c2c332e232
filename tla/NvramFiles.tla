----------------------------- MODULE NvramFiles -----------------------------
(***************************************************************************)
(* The files of emulated NVRAM: nvram.plist, nvram.fallback and nvram.used *)
(* on the EFI partition, as OcVariableRuntimeLib.c reads, writes, deletes  *)
(* and moves them, and as Utilities/LogoutHook/Launchd.command writes them *)
(* from within macOS.                                                      *)
(*                                                                         *)
(* A file is absent, unusable (empty or cut short: it opens, but the plist *)
(* parser refuses it), or holds the variables of one save, numbered `gen'. *)
(* An operation is the set of its possible runs; a run is the sequence of  *)
(* the directories it leaves on disk, one per file system call, and `ok'   *)
(* says that every call succeeded.                                         *)
(***************************************************************************)
EXTENDS Naturals, Sequences, SequencesExt

Absent   == [kind |-> "absent"]
Unusable == [kind |-> "unusable"]
Saved(gen, vars) == [kind |-> "saved", gen |-> gen, vars |-> vars]

\* nvram.used with contents: nothing ever reads it back.
Kept == [kind |-> "kept"]

NoFiles == [plist |-> Absent, fallback |-> Absent, used |-> Absent]

Run(ok, steps) == [ok |-> ok, steps |-> steps]

\* The runs that do Next(d) after r, where d is the directory r leaves.
Then(runs, Next(_)) ==
    UNION {{Run(r.ok /\ q.ok, r.steps \o q.steps) : q \in Next(Last(r.steps))} : r \in runs}

\* Mutant: the fallback is preferred to nvram.plist.
FallbackFirst(files) == IF files.fallback # Absent THEN files.fallback ELSE files.plist

\* The file LoadNvram takes its variables from.  An unusable nvram.plist is
\* not passed over: the load fails and nothing is taken from the fallback.
LoadNvram(files) == IF files.plist # Absent THEN files.plist ELSE files.fallback

DeleteFile(files, name) ==
    {Run(TRUE, <<[files EXCEPT ![name] = Absent]>>), Run(files[name] = Absent, <<files>>)}

\* Open, write, close: a write cut short leaves an unusable file, a refused
\* open leaves things as they were.
OcSetFileData(files, name, content) ==
    {Run(TRUE,  <<[files EXCEPT ![name] = Unusable], [files EXCEPT ![name] = content]>>),
     Run(FALSE, <<[files EXCEPT ![name] = Unusable]>>),
     Run(FALSE, <<files>>)}

\* Nothing is touched when serialising fails; then nvram.plist is deleted and
\* written anew.
SaveNvram(files, gen, vars) ==
    {Run(FALSE, <<files>>)} \cup
    Then(DeleteFile(files, "plist"), LAMBDA d : OcSetFileData(d, "plist", Saved(gen, vars)))

ResetNvram(files) ==
    Then(DeleteFile(files, "plist"), LAMBDA d : DeleteFile(d, "fallback"))

\* Mutant: nvram.used is written while nvram.plist stays where it is.
SwitchCopies(files) ==
    IF files.plist = Absent THEN {Run(TRUE, <<files>>)}
    ELSE Then(DeleteFile(files, "used"), LAMBDA d : OcSetFileData(d, "used", Kept))

\* nvram.plist becomes nvram.used: both are deleted and the contents read
\* before are written out again.
SwitchToFallback(files) ==
    IF files.plist = Absent THEN {Run(TRUE, <<files>>)}
    ELSE Then(Then(DeleteFile(files, "used"), LAMBDA d : DeleteFile(d, "plist")),
              LAMBDA d : OcSetFileData(d, "used", Kept))

\* What the agent of Launchd.command does when the daemon stops it.
touchNvram(files) == IF files.plist = Absent THEN [files EXCEPT !.plist = Unusable] ELSE files

\* saveNvram of Launchd.command, as the directories it goes through: the dump is
\* made outside the partition, nvram.plist (if there is one) is copied over the
\* fallback, the dump over nvram.plist, and nvram.used is removed.  cp empties
\* its target before it fills it.
saveNvram(files, gen, vars) ==
    LET kept == IF files.plist = Absent THEN files ELSE [files EXCEPT !.fallback = files.plist]
        new  == [kept EXCEPT !.plist = Saved(gen, vars)]
    IN  (IF files.plist = Absent THEN <<files>> ELSE <<files, [files EXCEPT !.fallback = Unusable]>>)
        \o <<kept, [kept EXCEPT !.plist = Unusable], new, [new EXCEPT !.used = Absent]>>
=============================================================================

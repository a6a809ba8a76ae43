---------------------------- MODULE StampOutput ----------------------------
(***************************************************************************)
(* How append_metadata replaces a library by a stamped one                 *)
(* (src/src/bin/append_metadata/): it reads a file, adds a footer to its   *)
(* bytes, writes them to a new file under a temporary name and renames     *)
(* that over the output.                                                   *)
(*                                                                         *)
(* Several may run at once on one output, and on the output itself         *)
(* (re-stamping in place), while other processes have it loaded, that is   *)
(* mapped.  Any call may fail, a process may be killed between any two     *)
(* calls, and the machine may lose power.                                  *)
(*                                                                         *)
(* The file system (external here) keeps a file as long as a name, a       *)
(* process or the disk's own copy of the directory refers to it; after a   *)
(* power loss the output is what it was at some moment since the last      *)
(* commit (the temporary names stay, one more or less being only litter),  *)
(* and a file that was not synced may be torn.  "The output" is what its   *)
(* path resolves to, so a symbolic link's target.  Of a file's bytes only  *)
(* what the properties need is kept: how many footers it ends in, and      *)
(* whether all of it is there.                                             *)
(***************************************************************************)
EXTENDS Naturals

CONSTANTS
    Stampers,   \* processes running append_metadata, again and again
    Hosts,      \* processes that load the output
    Inodes,     \* files
    Temps,      \* temporary names create_temp may draw
    Modes,      \* permissions a file may have
    Umask,      \* those of a newly created file
    None

ASSUME StampAssumption ==
    /\ Umask \in Modes
    /\ None \notin Inodes \cup Temps \cup Modes

VARIABLES
    pc,       \* what each stamper has done
    source,   \* the file it is reading: the output, None: the compiler's
    image,    \* footers of the bytes it will write, and whether they are whole
    keep,     \* the permissions it copies to its file, or None
    temp,     \* its temporary name, or None
    out,      \* the file the output's name refers to, or None
    names,    \* the file each temporary name refers to, or None
    disk,     \* what `out` may be after a power loss
    file,     \* each file's footers, wholeness, permissions, and whether it
              \* is synced
    mapped,   \* the file each host has mapped, or None
    orphans,  \* temporary names killed stampers have left
    mode      \* permissions the output is to have: those it had at first

stamperVars == <<pc, source, image, keep, temp>>
diskVars == <<out, names, disk, file, orphans>>
vars == <<stamperVars, diskVars, mapped, mode>>

Contents == [footers : Nat, whole : BOOLEAN]
Files == [footers : Nat, whole : BOOLEAN, mode : Modes, synced : BOOLEAN]

-----------------------------------------------------------------------------
(* The file system.                                                        *)

Free(i) ==
    /\ i # out
    /\ i \notin disk
    /\ \A t \in Temps : names[t] # i
    /\ \A h \in Hosts : mapped[h] # i
    /\ \A p \in Stampers : source[p] # i

New == [footers |-> 0, whole |-> FALSE, mode |-> Umask, synced |-> FALSE]

\* What is left of a file that was not synced.
Torn(f) == [footers |-> f.footers, whole |-> FALSE, mode |-> Umask, synced |-> FALSE]

\* The file a stamper writes.
Mine(p) == names[temp[p]]

-----------------------------------------------------------------------------
(* A run of append_metadata.                                               *)

\* There may be a library of any permissions, stamped or not, or none.
Init ==
    /\ pc = [p \in Stampers |-> "idle"]
    /\ source = [p \in Stampers |-> None]
    /\ image = [p \in Stampers |-> [footers |-> 0, whole |-> TRUE]]
    /\ keep = [p \in Stampers |-> None]
    /\ temp = [p \in Stampers |-> None]
    /\ names = [t \in Temps |-> None]
    /\ out \in Inodes \cup {None}
    /\ disk = {out}
    /\ mode \in Modes
    /\ out = None => mode = Umask
    /\ \E n \in 0..1 :
          file = [i \in Inodes |->
                    [footers |-> n, whole |-> TRUE, mode |-> mode,
                     synced |-> TRUE]]
    /\ mapped = [h \in Hosts |-> None]
    /\ orphans = {}

\* read_input opens the compiler's library or the output.
Open(p) ==
    /\ pc[p] = "idle"
    /\ pc' = [pc EXCEPT ![p] = "reading"]
    /\ \E i \in {None, out} : source' = [source EXCEPT ![p] = i]
    /\ UNCHANGED <<image, keep, temp, diskVars, mapped, mode>>

\* `stamp`: --replace takes the footer that is there off first.
Stamped(c, replace) ==
    [footers |-> IF c.footers > 0 /\ replace THEN c.footers ELSE c.footers + 1,
     whole |-> c.whole]

\* What reading the source gives: the compiler's library is unstamped, or
\* stamped by whatever made it.
Inputs(p) ==
    IF source[p] = None THEN {[footers |-> n, whole |-> TRUE] : n \in 0..1}
    ELSE {[footers |-> file[source[p]].footers, whole |-> file[source[p]].whole]}

\* The file is read to its end and closed, and stamped in memory; without
\* --replace a stamped one is refused.
Stamp(p) ==
    /\ pc[p] = "reading"
    /\ \E c \in Inputs(p), replace \in BOOLEAN :
          IF c.footers > 0 /\ ~replace
          THEN /\ pc' = [pc EXCEPT ![p] = "idle"]
               /\ UNCHANGED image
          ELSE /\ pc' = [pc EXCEPT ![p] = "stamped"]
               /\ image' = [image EXCEPT ![p] = Stamped(c, replace)]
    /\ source' = [source EXCEPT ![p] = None]
    /\ UNCHANGED <<keep, temp, diskVars, mapped, mode>>

\* write_atomically looks at the output it is about to replace.  (It takes
\* a failed look for no output; in a directory it can write to, none fails.)
Look(p) ==
    /\ pc[p] = "stamped"
    /\ pc' = [pc EXCEPT ![p] = "looked"]
    /\ keep' = [keep EXCEPT ![p] = IF out = None THEN None ELSE file[out].mode]
    /\ UNCHANGED <<source, image, temp, diskVars, mapped, mode>>

\* Mutant: an existing file of that name is opened and truncated.
CreateAny(p) ==
    /\ pc[p] = "looked"
    /\ pc' = [pc EXCEPT ![p] = "created"]
    /\ \E t \in Temps, i \in Inodes :
          /\ names[t] \in {None, i}
          /\ names[t] = None => Free(i)
          /\ temp' = [temp EXCEPT ![p] = t]
          /\ names' = [names EXCEPT ![t] = i]
          /\ file' = [file EXCEPT ![i] = New]
    /\ UNCHANGED <<source, image, keep, out, disk, orphans, mapped, mode>>

\* create_temp: create_new takes no name that exists.
Create(p) ==
    /\ pc[p] = "looked"
    /\ pc' = [pc EXCEPT ![p] = "created"]
    /\ \E t \in Temps, i \in Inodes :
          /\ names[t] = None
          /\ Free(i)
          /\ temp' = [temp EXCEPT ![p] = t]
          /\ names' = [names EXCEPT ![t] = i]
          /\ file' = [file EXCEPT ![i] = New]
    /\ UNCHANGED <<source, image, keep, out, disk, orphans, mapped, mode>>

\* write_all to its end.
Write(p) ==
    /\ pc[p] = "created"
    /\ pc' = [pc EXCEPT ![p] = "written"]
    /\ file' = [file EXCEPT ![Mine(p)] =
                   [footers |-> image[p].footers, whole |-> image[p].whole,
                    mode |-> @.mode, synced |-> FALSE]]
    /\ UNCHANGED <<source, image, keep, temp, out, names, disk, orphans,
                   mapped, mode>>

\* The permissions the file gets: the old output's if there was one.
Kept(p, m) == IF keep[p] = None THEN m ELSE keep[p]

\* Mutant: the permissions are left as created.
SetNothing(p) ==
    /\ pc[p] = "written"
    /\ pc' = [pc EXCEPT ![p] = "permitted"]
    /\ UNCHANGED <<source, image, keep, temp, diskVars, mapped, mode>>

SetPermissions(p) ==
    /\ pc[p] = "written"
    /\ pc' = [pc EXCEPT ![p] = "permitted"]
    /\ file' = [file EXCEPT ![Mine(p)] =
                   [footers |-> @.footers, whole |-> @.whole,
                    mode |-> Kept(p, @.mode), synced |-> FALSE]]
    /\ UNCHANGED <<source, image, keep, temp, out, names, disk, orphans,
                   mapped, mode>>

\* Mutant: the file is closed without a sync.
SyncNothing(p) ==
    /\ pc[p] = "permitted"
    /\ pc' = [pc EXCEPT ![p] = "synced"]
    /\ UNCHANGED <<source, image, keep, temp, diskVars, mapped, mode>>

\* sync_all, and the file is closed.
Sync(p) ==
    /\ pc[p] = "permitted"
    /\ pc' = [pc EXCEPT ![p] = "synced"]
    /\ file' = [file EXCEPT ![Mine(p)] =
                   [footers |-> @.footers, whole |-> @.whole,
                    mode |-> @.mode, synced |-> TRUE]]
    /\ UNCHANGED <<source, image, keep, temp, out, names, disk, orphans,
                   mapped, mode>>

\* Mutant: an existing output is rewritten in place.
RewriteInPlace(p) ==
    /\ pc[p] = "synced"
    /\ pc' = [pc EXCEPT ![p] = "idle"]
    /\ names' = [names EXCEPT ![temp[p]] = None]
    /\ IF out = None
       THEN /\ out' = Mine(p)
            /\ disk' = disk \cup {Mine(p)}
            /\ UNCHANGED file
       ELSE /\ file' = [file EXCEPT ![out] = file[Mine(p)]]
            /\ UNCHANGED <<out, disk>>
    /\ temp' = [temp EXCEPT ![p] = None]
    /\ UNCHANGED <<source, image, keep, orphans, mapped, mode>>

Rename(p) ==
    /\ pc[p] = "synced"
    /\ pc' = [pc EXCEPT ![p] = "idle"]
    /\ out' = Mine(p)
    /\ disk' = disk \cup {Mine(p)}
    /\ names' = [names EXCEPT ![temp[p]] = None]
    /\ temp' = [temp EXCEPT ![p] = None]
    /\ UNCHANGED <<source, image, keep, file, orphans, mapped, mode>>

\* Whatever comes next fails: Temp::drop removes the temporary file.
Fail(p) ==
    /\ pc[p] # "idle"
    /\ pc' = [pc EXCEPT ![p] = "idle"]
    /\ source' = [source EXCEPT ![p] = None]
    /\ temp' = [temp EXCEPT ![p] = None]
    /\ names' = [t \in Temps |-> IF t = temp[p] THEN None ELSE names[t]]
    /\ UNCHANGED <<image, keep, out, disk, file, orphans, mapped, mode>>

-----------------------------------------------------------------------------
(* Everybody else.                                                         *)

\* The process is killed: no destructor runs.  (A destructor that cannot
\* remove the file leaves the same behind.)
Kill(p) ==
    /\ pc[p] # "idle"
    /\ pc' = [pc EXCEPT ![p] = "idle"]
    /\ source' = [source EXCEPT ![p] = None]
    /\ temp' = [temp EXCEPT ![p] = None]
    /\ orphans' = orphans \cup ({temp[p]} \ {None})
    /\ UNCHANGED <<image, keep, out, names, disk, file, mapped, mode>>

Load(h) ==
    /\ out # None
    /\ mapped[h] = None
    /\ mapped' = [mapped EXCEPT ![h] = out]
    /\ UNCHANGED <<stamperVars, diskVars, mode>>

Unload(h) ==
    /\ mapped[h] # None
    /\ mapped' = [mapped EXCEPT ![h] = None]
    /\ UNCHANGED <<stamperVars, diskVars, mode>>

\* The user removes a temporary file that was left behind.
Sweep(t) ==
    /\ t \in orphans
    /\ orphans' = orphans \ {t}
    /\ names' = [names EXCEPT ![t] = None]
    /\ UNCHANGED <<stamperVars, out, disk, file, mapped, mode>>

\* The directory reaches the disk.
Commit ==
    /\ disk # {out}
    /\ disk' = {out}
    /\ UNCHANGED <<stamperVars, out, names, file, orphans, mapped, mode>>

PowerLoss ==
    /\ out' \in disk
    /\ disk' = {out'}
    /\ \E torn \in SUBSET {i \in Inodes : ~file[i].synced} :
          file' = [i \in Inodes |-> IF i \in torn THEN Torn(file[i]) ELSE file[i]]
    /\ pc' = [p \in Stampers |-> "idle"]
    /\ source' = [p \in Stampers |-> None]
    /\ temp' = [p \in Stampers |-> None]
    /\ orphans' = {t \in Temps : names[t] # None}
    /\ mapped' = [h \in Hosts |-> None]
    /\ UNCHANGED <<image, keep, names, mode>>

Next ==
    \/ \E p \in Stampers :
          \/ Open(p) \/ Stamp(p) \/ Look(p) \/ Create(p) \/ Write(p)
          \/ SetPermissions(p) \/ Sync(p) \/ Rename(p) \/ Fail(p) \/ Kill(p)
    \/ \E h \in Hosts : Load(h) \/ Unload(h)
    \/ \E t \in Temps : Sweep(t)
    \/ Commit
    \/ PowerLoss

Spec == Init /\ [][Next]_vars

-----------------------------------------------------------------------------
(* Properties.                                                             *)

\* Every variable keeps to its type.
TypeOK ==
    /\ pc \in [Stampers -> {"idle", "reading", "stamped", "looked", "created",
                            "written", "permitted", "synced"}]
    /\ source \in [Stampers -> Inodes \cup {None}]
    /\ image \in [Stampers -> Contents]
    /\ keep \in [Stampers -> Modes \cup {None}]
    /\ temp \in [Stampers -> Temps \cup {None}]
    /\ out \in Inodes \cup {None}
    /\ names \in [Temps -> Inodes \cup {None}]
    /\ disk \subseteq Inodes \cup {None}
    /\ file \in [Inodes -> Files]
    /\ mapped \in [Hosts -> Inodes \cup {None}]
    /\ orphans \subseteq Temps
    /\ mode \in Modes

\* The output is a whole library with one footer at most, whoever stamps it
\* at the same time, is killed or fails, and after a power loss too ("a write
\* that fails halfway leaves a truncated library", output.rs).
OutputWhole ==
    out # None => file[out].whole /\ file[out].footers <= 1

\* A file some process has loaded or is reading does not change under it
\* ("rewriting it under the process crashes it", output.rs).
InUseUntouched ==
    [][\A i \in Inodes :
          (\/ \E h \in Hosts : mapped[h] = i /\ mapped'[h] = i
           \/ \E p \in Stampers : source[p] = i /\ source'[p] = i)
              => file'[i] = file[i]]_vars

\* A temporary file belongs to one running stamper, or one that was killed
\* left it: it "is removed on every failure" (output.rs).
TempsOwned ==
    /\ \A t \in Temps :
          names[t] # None =>
              t \in orphans \/ \E p \in Stampers : temp[p] = t
    /\ \A p, q \in Stampers : p # q /\ temp[p] = temp[q] => temp[p] = None

\* A re-stamp keeps the output's permissions, concurrent ones, failures and
\* power losses included.
ModeKept == out # None => file[out].mode = mode
=============================================================================

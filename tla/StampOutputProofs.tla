------------------------- MODULE StampOutputProofs -------------------------
(***************************************************************************)
(* Proofs about StampOutput, for any number of stampers, hosts, files and  *)
(* temporary names: the output is always a whole library with the          *)
(* permissions it had, and nobody's file changes while it is in use.       *)
(***************************************************************************)
EXTENDS StampOutput, TLAPS

\* A file fit to be the output.
Good(i) ==
    /\ file[i].whole = TRUE
    /\ file[i].footers <= 1
    /\ file[i].mode = mode

\* The output, and what a power loss may make it, is good and on the disk.
DiskInv ==
    /\ out \in disk
    /\ None \in disk => mode = Umask
    /\ \A i \in disk : i # None => Good(i) /\ file[i].synced = TRUE

\* A temporary file is no one else's: not the output, not in use, and under
\* one name only.
Apart ==
    /\ \A t \in Temps :
          names[t] # None =>
              /\ names[t] # out
              /\ names[t] \notin disk
              /\ \A h \in Hosts : mapped[h] # names[t]
              /\ \A p \in Stampers : source[p] # names[t]
    /\ \A t, u \in Temps : names[t] # None /\ names[t] = names[u] => t = u

Holding == {"created", "written", "permitted", "synced"}

\* Who holds a temporary name, and that it is there.
Held ==
    /\ \A p \in Stampers :
          /\ pc[p] \in Holding => temp[p] \in Temps
          /\ pc[p] \notin Holding => temp[p] = None
          /\ temp[p] # None => names[temp[p]] # None /\ temp[p] \notin orphans
    /\ \A t \in orphans : names[t] # None
    /\ TempsOwned

\* How far a stamper's file is what the output should be.
Along(p) ==
    /\ source[p] # None =>
          /\ pc[p] = "reading"
          /\ file[source[p]].whole = TRUE /\ file[source[p]].footers <= 1
    /\ pc[p] \notin {"idle", "reading"} =>
          image[p].whole = TRUE /\ image[p].footers <= 1
    /\ pc[p] \in {"looked"} \cup Holding =>
          keep[p] = mode \/ (keep[p] = None /\ mode = Umask)
    /\ pc[p] \in {"created", "written"} => file[Mine(p)].mode = Umask
    /\ pc[p] \in {"written", "permitted", "synced"} =>
          file[Mine(p)].whole = TRUE /\ file[Mine(p)].footers <= 1
    /\ pc[p] \in {"permitted", "synced"} => file[Mine(p)].mode = mode
    /\ pc[p] = "synced" => file[Mine(p)].synced = TRUE

Progress == \A p \in Stampers : Along(p)

StampInv == DiskInv /\ Apart /\ Held /\ Progress

-----------------------------------------------------------------------------
(* Types.                                                                  *)

\* A stamper that has a temporary file has a name of its own for it.
LEMMA MineFacts ==
    ASSUME TypeOK, Apart, Held, NEW p \in Stampers, pc[p] \in Holding
    PROVE  /\ temp[p] \in Temps
           /\ Mine(p) \in Inodes
           /\ Mine(p) = names[temp[p]]
           /\ Mine(p) # None
           /\ temp[p] \notin orphans
           /\ \A q \in Stampers : q # p => temp[q] # temp[p]
           /\ \A q \in Stampers : q # p /\ pc[q] \in Holding => Mine(q) # Mine(p)
<1>1. /\ temp[p] \in Temps /\ temp[p] # None
      /\ names[temp[p]] # None /\ temp[p] \notin orphans
  BY StampAssumption DEF Held
<1>2. \A q \in Stampers : q # p => temp[q] # temp[p]
  BY <1>1 DEF Held, TempsOwned
<1>3. \A q \in Stampers : pc[q] \in Holding => temp[q] \in Temps
  BY DEF Held
<1> QED
  BY <1>1, <1>2, <1>3 DEF TypeOK, Apart, Mine

LEMMA TypeInit == Init => TypeOK
  BY StampAssumption DEF Init, TypeOK, Contents, Files

LEMMA StampedType ==
    ASSUME NEW c \in Contents, NEW replace \in BOOLEAN
    PROVE  Stamped(c, replace) \in Contents
  BY DEF Stamped, Contents

LEMMA InputsType ==
    ASSUME TypeOK, NEW p \in Stampers
    PROVE  Inputs(p) \subseteq Contents
<1>1. CASE source[p] = None
  <2>1. Inputs(p) = {[footers |-> n, whole |-> TRUE] : n \in 0..1}
    BY <1>1 DEF Inputs
  <2>2. \A n \in 0..1 : [footers |-> n, whole |-> TRUE] \in Contents
    BY DEF Contents
  <2> QED
    BY <2>1, <2>2
<1>2. CASE source[p] # None
  <2>1. file[source[p]] \in Files
    BY <1>2 DEF TypeOK
  <2> QED
    BY <1>2, <2>1 DEF Inputs, Contents, Files
<1> QED
  BY <1>1, <1>2

LEMMA TypeStep == TypeOK /\ Apart /\ Held /\ [Next]_vars => TypeOK'
<1> SUFFICES ASSUME TypeOK, Apart, Held, [Next]_vars
             PROVE  TypeOK'
  OBVIOUS
<1> USE DEF TypeOK
<1>1. ASSUME NEW p \in Stampers, Open(p)
      PROVE  TypeOK'
  BY <1>1 DEF Open, diskVars
<1>2. ASSUME NEW p \in Stampers, Stamp(p)
      PROVE  TypeOK'
  <2>1. PICK c \in Contents, replace \in BOOLEAN :
            \/ pc' = [pc EXCEPT ![p] = "idle"] /\ image' = image
            \/ /\ pc' = [pc EXCEPT ![p] = "stamped"]
               /\ image' = [image EXCEPT ![p] = Stamped(c, replace)]
    <3>1. Inputs(p) \subseteq Contents
      BY InputsType
    <3> QED
      BY <1>2, <3>1 DEF Stamp
  <2>2. image' \in [Stampers -> Contents]
    BY <2>1, StampedType
  <2> QED
    BY <1>2, <2>1, <2>2 DEF Stamp, diskVars
<1>3. ASSUME NEW p \in Stampers, Look(p)
      PROVE  TypeOK'
  BY <1>3 DEF Look, diskVars, Files
<1>4. ASSUME NEW p \in Stampers, Create(p)
      PROVE  TypeOK'
  <2>1. New \in Files
    BY StampAssumption DEF New, Files
  <2> QED
    BY <1>4, <2>1 DEF Create
<1>5. ASSUME NEW p \in Stampers, Write(p)
      PROVE  TypeOK'
  <2>1. Mine(p) \in Inodes
    BY <1>5, MineFacts DEF Write, Holding
  <2>2. [footers |-> image[p].footers, whole |-> image[p].whole,
         mode |-> file[Mine(p)].mode, synced |-> FALSE] \in Files
    BY <2>1 DEF Contents, Files
  <2> QED
    BY <1>5, <2>1, <2>2 DEF Write
<1>6. ASSUME NEW p \in Stampers, SetPermissions(p)
      PROVE  TypeOK'
  <2>1. Mine(p) \in Inodes
    BY <1>6, MineFacts DEF SetPermissions, Holding
  <2>2. Kept(p, file[Mine(p)].mode) \in Modes
    BY <2>1 DEF Kept, Files
  <2>3. [footers |-> file[Mine(p)].footers, whole |-> file[Mine(p)].whole,
         mode |-> Kept(p, file[Mine(p)].mode), synced |-> FALSE] \in Files
    BY <2>1, <2>2 DEF Files
  <2> QED
    BY <1>6, <2>1, <2>3 DEF SetPermissions
<1>7. ASSUME NEW p \in Stampers, Sync(p)
      PROVE  TypeOK'
  <2>1. Mine(p) \in Inodes
    BY <1>7, MineFacts DEF Sync, Holding
  <2>2. [footers |-> file[Mine(p)].footers, whole |-> file[Mine(p)].whole,
         mode |-> file[Mine(p)].mode, synced |-> TRUE] \in Files
    BY <2>1 DEF Files
  <2> QED
    BY <1>7, <2>1, <2>2 DEF Sync
<1>8. ASSUME NEW p \in Stampers, Rename(p)
      PROVE  TypeOK'
  <2>1. Mine(p) \in Inodes
    BY <1>8, MineFacts DEF Rename, Holding
  <2> QED
    BY <1>8, <2>1 DEF Rename
<1>9. ASSUME NEW p \in Stampers, Fail(p)
      PROVE  TypeOK'
  BY <1>9 DEF Fail
<1>10. ASSUME NEW p \in Stampers, Kill(p)
       PROVE  TypeOK'
  BY <1>10 DEF Kill
<1>11. ASSUME NEW h \in Hosts, Load(h) \/ Unload(h)
       PROVE  TypeOK'
  BY <1>11 DEF Load, Unload, stamperVars, diskVars
<1>12. ASSUME NEW t \in Temps, Sweep(t)
       PROVE  TypeOK'
  BY <1>12 DEF Sweep, stamperVars
<1>13. CASE Commit
  BY <1>13 DEF Commit, stamperVars
<1>14. CASE PowerLoss
  <2>1. \A i \in Inodes : file[i] \in Files /\ Torn(file[i]) \in Files
    BY StampAssumption DEF Torn, Files
  <2> QED
    BY <1>14, <2>1 DEF PowerLoss
<1>15. CASE UNCHANGED vars
  BY <1>15 DEF vars, stamperVars, diskVars
<1> HIDE DEF TypeOK
<1> QED
  BY <1>1, <1>2, <1>3, <1>4, <1>5, <1>6, <1>7, <1>8, <1>9, <1>10, <1>11,
     <1>12, <1>13, <1>14, <1>15 DEF Next

-----------------------------------------------------------------------------
(* The invariant.                                                          *)

\* Writing to its temporary file, a stamper disturbs nobody else.
LEMMA WritesMine ==
    ASSUME TypeOK, StampInv, NEW p \in Stampers, pc[p] \in Holding,
           NEW step \in Holding, pc' = [pc EXCEPT ![p] = step],
           NEW f \in Files, file' = [file EXCEPT ![Mine(p)] = f],
           UNCHANGED <<source, image, keep, temp, out, names, disk, orphans,
                       mapped, mode>>
    PROVE  /\ DiskInv' /\ Apart' /\ Held'
           /\ \A q \in Stampers : q # p => Along(q)'
           /\ file'[Mine(p)] = f /\ Mine(p)' = Mine(p) /\ source[p] = None
<1>1. /\ Mine(p) \in Inodes /\ Mine(p) # None /\ Mine(p) = names[temp[p]]
      /\ temp[p] \in Temps
      /\ \A q \in Stampers : q # p /\ pc[q] \in Holding => Mine(q) # Mine(p)
  BY MineFacts DEF StampInv
<1>2. /\ Mine(p) # out /\ Mine(p) \notin disk
      /\ \A q \in Stampers : source[q] # Mine(p)
  BY <1>1 DEF StampInv, Apart
<1>3. file'[Mine(p)] = f /\ \A i \in Inodes : i # Mine(p) => file'[i] = file[i]
  BY <1>1 DEF TypeOK
<1>4. DiskInv'
  <2>1. \A i \in disk : i # None => i \in Inodes /\ file'[i] = file[i]
    BY <1>2, <1>3 DEF TypeOK
  <2> QED
    BY <2>1 DEF StampInv, DiskInv, Good
<1>5. Apart'
  BY DEF StampInv, Apart
<1>6. Held'
  <2>1. \A q \in Stampers : pc'[q] \in Holding <=> pc[q] \in Holding
    BY DEF TypeOK
  <2> QED
    BY <2>1 DEF StampInv, Held, TempsOwned
<1>7. ASSUME NEW q \in Stampers, q # p
      PROVE  Along(q)'
  <2>1. pc'[q] = pc[q]
    BY <1>7 DEF TypeOK
  <2>2. source[q] # None => file'[source[q]] = file[source[q]]
    BY <1>2, <1>3 DEF TypeOK
  <2>3. Mine(q)' = Mine(q)
    BY DEF Mine
  <2>4. pc[q] \in Holding => file'[Mine(q)] = file[Mine(q)]
    <3>1. pc[q] \in Holding => Mine(q) \in Inodes
      BY MineFacts DEF StampInv
    <3> QED
      BY <1>1, <1>3, <1>7, <3>1
  <2>5. Along(q)
    BY DEF StampInv, Progress
  <2> QED
    BY <2>1, <2>2, <2>3, <2>4, <2>5 DEF Along, Holding
<1>8. Mine(p)' = Mine(p)
  BY DEF Mine
<1>9. source[p] = None
  BY DEF StampInv, Progress, Along, Holding
<1> QED
  BY <1>3, <1>4, <1>5, <1>6, <1>7, <1>8, <1>9

\* Letting go of a temporary name, nobody else's file changes.
LEMMA OthersAlong ==
    ASSUME TypeOK, StampInv, NEW p \in Stampers,
           NEW q \in Stampers, q # p,
           pc'[q] = pc[q], source'[q] = source[q], image'[q] = image[q],
           keep'[q] = keep[q], mode' = mode,
           source[q] # None => file'[source[q]] = file[source[q]],
           pc[q] \in Holding => Mine(q)' = Mine(q) /\ file'[Mine(q)] = file[Mine(q)]
    PROVE  Along(q)'
<1>1. Along(q)
  BY DEF StampInv, Progress
<1> QED
  BY <1>1 DEF Along, Holding

LEMMA InitStampInv == Init => StampInv
<1> SUFFICES ASSUME Init
             PROVE  StampInv
  OBVIOUS
<1>1. /\ out \in Inodes \cup {None} /\ disk = {out} /\ (out = None => mode = Umask)
      /\ \A i \in Inodes : Good(i) /\ file[i].synced = TRUE
  BY DEF Init, Good
<1>2. DiskInv
  BY <1>1 DEF DiskInv
<1>3. Apart /\ Held
  BY DEF Init, Apart, Held, TempsOwned, Holding
<1>4. Progress
  BY DEF Init, Progress, Along, Holding
<1> QED
  BY <1>2, <1>3, <1>4 DEF StampInv

\* What a stamper reads is whole, and stamping it gives one footer.
LEMMA InputsGood ==
    ASSUME TypeOK, StampInv, NEW p \in Stampers,
           NEW c \in Inputs(p), NEW replace \in BOOLEAN,
           ~ (c.footers > 0 /\ ~replace)
    PROVE  Stamped(c, replace).whole = TRUE /\ Stamped(c, replace).footers <= 1
<1>1. c \in Contents
  BY InputsType
<1>2. c.whole = TRUE /\ c.footers <= 1
  <2>1. CASE source[p] = None
    BY <2>1 DEF Inputs
  <2>2. CASE source[p] # None
    BY <2>2 DEF Inputs, StampInv, Progress, Along
  <2> QED
    BY <2>1, <2>2
<1> QED
  BY <1>1, <1>2 DEF Stamped, Contents

\* A stamper that reads or prepares the bytes changes nothing but itself.
LEMMA PrepareStep ==
    ASSUME TypeOK, StampInv, NEW p \in Stampers, Open(p) \/ Stamp(p) \/ Look(p)
    PROVE  StampInv'
<1>1. /\ UNCHANGED <<temp, out, names, disk, file, orphans, mapped, mode>>
      /\ pc[p] \notin Holding
      /\ \E step \in {"idle", "reading", "stamped", "looked"} :
            pc' = [pc EXCEPT ![p] = step]
  BY DEF Open, Stamp, Look, diskVars, Holding
<1>2. \A q \in Stampers : pc'[q] \in Holding <=> pc[q] \in Holding
  BY <1>1 DEF TypeOK, Holding
<1>3. \A q \in Stampers : source'[q] = source[q] \/ source'[q] \in {None, out}
  BY DEF Open, Stamp, Look, TypeOK
<1>4. DiskInv'
  BY <1>1 DEF StampInv, DiskInv, Good
<1>5. Apart'
  BY <1>1, <1>3 DEF StampInv, Apart
<1>6. Held'
  BY <1>1, <1>2 DEF StampInv, Held, TempsOwned
<1>7. ASSUME NEW q \in Stampers, q # p
      PROVE  Along(q)'
  <2>1. /\ pc'[q] = pc[q] /\ source'[q] = source[q] /\ image'[q] = image[q]
        /\ keep'[q] = keep[q]
    BY <1>7 DEF Open, Stamp, Look, TypeOK
  <2>2. Mine(q)' = Mine(q)
    BY <1>1 DEF Mine
  <2> QED
    BY <1>1, <1>7, <2>1, <2>2, OthersAlong
<1>8. Along(p)'
  <2>1. CASE Open(p)
    <3>1. pc'[p] = "reading" /\ source'[p] \in {None, out}
      BY <2>1 DEF Open, TypeOK
    <3>2. out # None => file'[out].whole = TRUE /\ file'[out].footers <= 1
      BY <1>1 DEF StampInv, DiskInv, Good
    <3> QED
      BY <3>1, <3>2 DEF Along, Holding
  <2>2. CASE Stamp(p)
    <3>1. source'[p] = None
      BY <2>2 DEF Stamp, TypeOK
    <3>2. PICK c \in Inputs(p), replace \in BOOLEAN :
              IF c.footers > 0 /\ ~replace
              THEN pc' = [pc EXCEPT ![p] = "idle"] /\ UNCHANGED image
              ELSE /\ pc' = [pc EXCEPT ![p] = "stamped"]
                   /\ image' = [image EXCEPT ![p] = Stamped(c, replace)]
      BY <2>2 DEF Stamp
    <3>3. CASE c.footers > 0 /\ ~replace
      BY <3>1, <3>2, <3>3 DEF Along, Holding, TypeOK
    <3>4. CASE ~ (c.footers > 0 /\ ~replace)
      <4>1. pc'[p] = "stamped" /\ image'[p] = Stamped(c, replace)
        BY <3>2, <3>4 DEF TypeOK
      <4>2. image'[p].whole = TRUE /\ image'[p].footers <= 1
        BY <3>4, <4>1, InputsGood
      <4> QED
        BY <3>1, <4>1, <4>2 DEF Along, Holding
    <3> QED
      BY <3>3, <3>4
  <2>3. CASE Look(p)
    <3>1. /\ pc'[p] = "looked" /\ source'[p] = source[p] /\ image'[p] = image[p]
          /\ keep'[p] = IF out = None THEN None ELSE file[out].mode
          /\ pc[p] = "stamped"
      BY <2>3 DEF Look, TypeOK
    <3>2. keep'[p] = mode \/ (keep'[p] = None /\ mode = Umask)
      BY <3>1 DEF StampInv, DiskInv, Good
    <3>3. source[p] = None /\ image[p].whole = TRUE /\ image[p].footers <= 1
      BY <3>1 DEF StampInv, Progress, Along
    <3> QED
      BY <1>1, <3>1, <3>2, <3>3 DEF Along, Holding
  <2> QED
    BY <2>1, <2>2, <2>3
<1> QED
  BY <1>4, <1>5, <1>6, <1>7, <1>8 DEF StampInv, Progress

LEMMA CreateStep ==
    ASSUME TypeOK, StampInv, NEW p \in Stampers, Create(p)
    PROVE  StampInv'
<1>1. PICK t \in Temps, i \in Inodes :
          /\ names[t] = None
          /\ Free(i)
          /\ temp' = [temp EXCEPT ![p] = t]
          /\ names' = [names EXCEPT ![t] = i]
          /\ file' = [file EXCEPT ![i] = New]
  BY DEF Create
<1>2. /\ pc[p] = "looked" /\ pc' = [pc EXCEPT ![p] = "created"]
      /\ UNCHANGED <<source, image, keep, out, disk, orphans, mapped, mode>>
  BY DEF Create
<1>3. /\ i # None /\ i # out /\ i \notin disk /\ \A u \in Temps : names[u] # i
      /\ \A h \in Hosts : mapped[h] # i
      /\ \A q \in Stampers : source[q] # i
  BY <1>1, StampAssumption DEF Free
<1>4. file'[i] = New /\ \A j \in Inodes : j # i => file'[j] = file[j]
  BY <1>1 DEF TypeOK
<1>5. names'[t] = i /\ \A u \in Temps : u # t => names'[u] = names[u]
  BY <1>1 DEF TypeOK
<1>6. /\ temp'[p] = t /\ pc'[p] = "created"
      /\ \A q \in Stampers : q # p => temp'[q] = temp[q] /\ pc'[q] = pc[q]
  BY <1>1, <1>2 DEF TypeOK
<1>7. t \notin orphans /\ t # None /\ \A q \in Stampers : temp[q] # t
  <2>1. \A u \in orphans : names[u] # None
    BY DEF StampInv, Held
  <2> QED
    BY <1>1, <2>1, StampAssumption DEF StampInv, Held
<1>8. DiskInv'
  <2>1. \A j \in disk : j # None => file'[j] = file[j]
    BY <1>3, <1>4 DEF TypeOK
  <2> QED
    BY <1>2, <2>1 DEF StampInv, DiskInv, Good
<1>9. Apart'
  BY <1>2, <1>3, <1>5 DEF StampInv, Apart
<1>10. Held'
  <2>1. TempsOwned'
    <3>1. temp[p] = None
      BY <1>2 DEF StampInv, Held, Holding
    <3>2. ASSUME NEW u \in Temps, names'[u] # None
          PROVE  u \in orphans' \/ \E q \in Stampers : temp'[q] = u
      <4>1. CASE u = t
        BY <1>6, <4>1
      <4>2. CASE u # t
        <5>1. u \in orphans \/ \E q \in Stampers : temp[q] = u
          BY <1>5, <3>2, <4>2 DEF StampInv, Held, TempsOwned
        <5>2. u # None
          BY StampAssumption
        <5> QED
          BY <1>2, <1>6, <3>1, <5>1, <5>2
      <4> QED
        BY <4>1, <4>2
    <3>3. ASSUME NEW q \in Stampers, NEW r \in Stampers, q # r, temp'[q] = temp'[r]
          PROVE  temp'[q] = None
      BY <1>6, <1>7, <3>3 DEF StampInv, Held, TempsOwned
    <3> QED
      BY <3>2, <3>3 DEF TempsOwned
  <2>2. ASSUME NEW q \in Stampers
        PROVE  /\ pc'[q] \in Holding => temp'[q] \in Temps
               /\ pc'[q] \notin Holding => temp'[q] = None
               /\ temp'[q] # None => names'[temp'[q]] # None /\ temp'[q] \notin orphans'
    BY <1>2, <1>3, <1>5, <1>6, <1>7 DEF StampInv, Held, Holding, TypeOK
  <2>3. \A u \in orphans' : names'[u] # None
    BY <1>2, <1>5, <1>7 DEF StampInv, Held, TypeOK
  <2> QED
    BY <2>1, <2>2, <2>3 DEF Held
<1>11. ASSUME NEW q \in Stampers, q # p
       PROVE  Along(q)'
  <2>1. source[q] # None => file'[source[q]] = file[source[q]]
    BY <1>3, <1>4 DEF TypeOK
  <2>2. pc[q] \in Holding => Mine(q)' = Mine(q) /\ file'[Mine(q)] = file[Mine(q)]
    <3>1. SUFFICES ASSUME pc[q] \in Holding
                   PROVE  Mine(q)' = Mine(q) /\ file'[Mine(q)] = file[Mine(q)]
      OBVIOUS
    <3>2. temp[q] \in Temps /\ Mine(q) \in Inodes /\ Mine(q) = names[temp[q]]
      BY <3>1, MineFacts DEF StampInv
    <3> QED
      BY <1>3, <1>4, <1>5, <1>6, <1>7, <1>11, <3>2 DEF Mine
  <2> QED
    BY <1>2, <1>6, <1>11, <2>1, <2>2, OthersAlong
<1>12. Along(p)'
  <2>1. Mine(p)' = i
    BY <1>5, <1>6 DEF Mine
  <2>2. file'[i].mode = Umask
    BY <1>4 DEF New
  <2>3. Along(p)
    BY DEF StampInv, Progress
  <2> QED
    BY <1>2, <1>6, <2>1, <2>2, <2>3 DEF Along, Holding
<1> QED
  BY <1>8, <1>9, <1>10, <1>11, <1>12 DEF StampInv, Progress

\* Filling its file, a stamper leaves it what the output should be.
LEMMA FillStep ==
    ASSUME TypeOK, StampInv, NEW p \in Stampers,
           Write(p) \/ SetPermissions(p) \/ Sync(p)
    PROVE  StampInv'
<1> DEFINE f == file'[Mine(p)]
<1>1. /\ pc[p] \in Holding
      /\ UNCHANGED <<source, image, keep, temp, out, names, disk, orphans,
                     mapped, mode>>
  BY DEF Write, SetPermissions, Sync, Holding
<1>2. Mine(p) \in Inodes /\ file[Mine(p)] \in Files /\ Along(p)
  BY <1>1, MineFacts DEF StampInv, Progress, TypeOK
<1>3. CASE Write(p)
  <2> DEFINE g == [footers |-> image[p].footers, whole |-> image[p].whole,
                   mode |-> file[Mine(p)].mode, synced |-> FALSE]
  <2>1. g \in Files
    BY <1>2 DEF TypeOK, Contents, Files
  <2>2. /\ file' = [file EXCEPT ![Mine(p)] = g]
        /\ pc[p] = "created" /\ pc' = [pc EXCEPT ![p] = "written"]
    BY <1>3 DEF Write
  <2>3. /\ DiskInv' /\ Apart' /\ Held'
        /\ \A q \in Stampers : q # p => Along(q)'
        /\ file'[Mine(p)] = g /\ Mine(p)' = Mine(p) /\ source[p] = None
    <3> HIDE DEF g
    <3>1. "written" \in Holding
      BY DEF Holding
    <3> QED
      BY <1>1, <2>1, <2>2, <3>1, WritesMine
  <2>4. pc'[p] = "written"
    BY <2>2 DEF TypeOK
  <2>5. /\ file'[Mine(p)].whole = image[p].whole
        /\ file'[Mine(p)].footers = image[p].footers
        /\ file'[Mine(p)].mode = file[Mine(p)].mode
    BY <2>3
  <2>6. Along(p)'
    BY <1>1, <1>2, <2>2, <2>3, <2>4, <2>5 DEF Along, Holding
  <2> QED
    BY <2>3, <2>6 DEF StampInv, Progress
<1>4. CASE SetPermissions(p)
  <2> DEFINE g == [footers |-> file[Mine(p)].footers,
                   whole |-> file[Mine(p)].whole,
                   mode |-> Kept(p, file[Mine(p)].mode), synced |-> FALSE]
  <2>1. g \in Files
    BY <1>2 DEF TypeOK, Kept, Files
  <2>2. /\ file' = [file EXCEPT ![Mine(p)] = g]
        /\ pc[p] = "written" /\ pc' = [pc EXCEPT ![p] = "permitted"]
    BY <1>4 DEF SetPermissions
  <2>3. /\ DiskInv' /\ Apart' /\ Held'
        /\ \A q \in Stampers : q # p => Along(q)'
        /\ file'[Mine(p)] = g /\ Mine(p)' = Mine(p) /\ source[p] = None
    <3> HIDE DEF g
    <3>1. "permitted" \in Holding
      BY DEF Holding
    <3> QED
      BY <1>1, <2>1, <2>2, <3>1, WritesMine
  <2>4. pc'[p] = "permitted"
    BY <2>2 DEF TypeOK
  <2>5. /\ file'[Mine(p)].whole = file[Mine(p)].whole
        /\ file'[Mine(p)].footers = file[Mine(p)].footers
        /\ file'[Mine(p)].mode = mode
    BY <1>2, <2>2, <2>3, StampAssumption DEF Along, Kept, Holding, TypeOK
  <2>6. Along(p)'
    BY <1>1, <1>2, <2>2, <2>3, <2>4, <2>5 DEF Along, Holding
  <2> QED
    BY <2>3, <2>6 DEF StampInv, Progress
<1>5. CASE Sync(p)
  <2> DEFINE g == [footers |-> file[Mine(p)].footers,
                   whole |-> file[Mine(p)].whole,
                   mode |-> file[Mine(p)].mode, synced |-> TRUE]
  <2>1. g \in Files
    BY <1>2 DEF TypeOK, Files
  <2>2. /\ file' = [file EXCEPT ![Mine(p)] = g]
        /\ pc[p] = "permitted" /\ pc' = [pc EXCEPT ![p] = "synced"]
    BY <1>5 DEF Sync
  <2>3. /\ DiskInv' /\ Apart' /\ Held'
        /\ \A q \in Stampers : q # p => Along(q)'
        /\ file'[Mine(p)] = g /\ Mine(p)' = Mine(p) /\ source[p] = None
    <3> HIDE DEF g
    <3>1. "synced" \in Holding
      BY DEF Holding
    <3> QED
      BY <1>1, <2>1, <2>2, <3>1, WritesMine
  <2>4. pc'[p] = "synced"
    BY <2>2 DEF TypeOK
  <2>5. /\ file'[Mine(p)].whole = file[Mine(p)].whole
        /\ file'[Mine(p)].footers = file[Mine(p)].footers
        /\ file'[Mine(p)].mode = file[Mine(p)].mode
        /\ file'[Mine(p)].synced = TRUE
    BY <2>3
  <2>6. Along(p)'
    BY <1>1, <1>2, <2>2, <2>3, <2>4, <2>5 DEF Along, Holding
  <2> QED
    BY <2>3, <2>6 DEF StampInv, Progress
<1> QED
  BY <1>3, <1>4, <1>5

LEMMA RenameStep ==
    ASSUME TypeOK, StampInv, NEW p \in Stampers, Rename(p)
    PROVE  StampInv'
<1>1. /\ pc[p] = "synced" /\ out' = Mine(p) /\ disk' = disk \cup {Mine(p)}
      /\ names' = [names EXCEPT ![temp[p]] = None]
      /\ temp' = [temp EXCEPT ![p] = None]
      /\ pc' = [pc EXCEPT ![p] = "idle"]
      /\ UNCHANGED <<source, image, keep, file, orphans, mapped, mode>>
  BY DEF Rename
<1>2. /\ Mine(p) \in Inodes /\ Mine(p) # None /\ Mine(p) = names[temp[p]]
      /\ temp[p] \in Temps /\ temp[p] # None /\ temp[p] \notin orphans
      /\ \A q \in Stampers : q # p => temp[q] # temp[p]
  BY <1>1, MineFacts, StampAssumption DEF StampInv, Holding
<1>3. /\ names'[temp[p]] = None
      /\ \A t \in Temps : t # temp[p] => names'[t] = names[t] /\ names[t] # Mine(p)
  BY <1>1, <1>2 DEF TypeOK, StampInv, Apart
<1>4. /\ temp'[p] = None /\ pc'[p] = "idle"
      /\ \A q \in Stampers : q # p => temp'[q] = temp[q] /\ pc'[q] = pc[q]
  BY <1>1 DEF TypeOK
<1>5. DiskInv'
  <2>1. Good(Mine(p)) /\ file[Mine(p)].synced = TRUE
    BY <1>1 DEF StampInv, Progress, Along, Good
  <2> QED
    BY <1>1, <1>2, <2>1 DEF StampInv, DiskInv, Good
<1>6. Apart'
  BY <1>1, <1>2, <1>3 DEF StampInv, Apart
<1>7. Held'
  <2>1. TempsOwned'
    BY <1>1, <1>2, <1>3, <1>4 DEF StampInv, Held, TempsOwned
  <2>2. ASSUME NEW q \in Stampers
        PROVE  /\ pc'[q] \in Holding => temp'[q] \in Temps
               /\ pc'[q] \notin Holding => temp'[q] = None
               /\ temp'[q] # None => names'[temp'[q]] # None /\ temp'[q] \notin orphans'
    BY <1>1, <1>2, <1>3, <1>4 DEF StampInv, Held, Holding, TypeOK
  <2>3. \A u \in orphans' : names'[u] # None
    BY <1>1, <1>2, <1>3 DEF StampInv, Held, TypeOK
  <2> QED
    BY <2>1, <2>2, <2>3 DEF Held
<1>8. ASSUME NEW q \in Stampers, q # p
      PROVE  Along(q)'
  <2>1. pc[q] \in Holding => Mine(q)' = Mine(q)
    BY <1>2, <1>3, <1>4, <1>8 DEF StampInv, Held, Mine
  <2> QED
    BY <1>1, <1>4, <1>8, <2>1, OthersAlong
<1>9. Along(p)'
  BY <1>1, <1>4 DEF StampInv, Progress, Along, Holding
<1> QED
  BY <1>5, <1>6, <1>7, <1>8, <1>9 DEF StampInv, Progress

\* A stamper that fails takes its temporary file with it.
LEMMA FailStep ==
    ASSUME TypeOK, StampInv, NEW p \in Stampers, Fail(p)
    PROVE  StampInv'
<1>1. /\ UNCHANGED <<image, keep, out, disk, file, orphans, mapped, mode>>
      /\ names' = [t \in Temps |-> IF t = temp[p] THEN None ELSE names[t]]
  BY DEF Fail
<1>2. /\ temp'[p] = None /\ pc'[p] = "idle" /\ source'[p] = None
      /\ \A q \in Stampers : q # p =>
            temp'[q] = temp[q] /\ pc'[q] = pc[q] /\ source'[q] = source[q]
  BY DEF Fail, TypeOK
<1>3. \A q \in Stampers : q # p /\ temp[q] # None => temp[q] # temp[p]
  BY DEF StampInv, Held, TempsOwned
<1>4. DiskInv'
  BY <1>1 DEF StampInv, DiskInv, Good
<1>5. Apart'
  BY <1>1, <1>2 DEF StampInv, Apart
<1>6. Held'
  <2>1. TempsOwned'
    BY <1>1, <1>2 DEF StampInv, Held, TempsOwned
  <2>2. ASSUME NEW q \in Stampers
        PROVE  /\ pc'[q] \in Holding => temp'[q] \in Temps
               /\ pc'[q] \notin Holding => temp'[q] = None
               /\ temp'[q] # None => names'[temp'[q]] # None /\ temp'[q] \notin orphans'
    BY <1>1, <1>2, <1>3 DEF StampInv, Held, Holding, TypeOK
  <2>3. \A u \in orphans' : names'[u] # None
    BY <1>1, StampAssumption DEF StampInv, Held, TypeOK
  <2> QED
    BY <2>1, <2>2, <2>3 DEF Held
<1>7. ASSUME NEW q \in Stampers, q # p
      PROVE  Along(q)'
  <2>1. pc[q] \in Holding => Mine(q)' = Mine(q)
    BY <1>1, <1>2, <1>3, <1>7, StampAssumption DEF StampInv, Held, Mine
  <2> QED
    BY <1>1, <1>2, <1>7, <2>1, OthersAlong
<1>8. Along(p)'
  BY <1>2 DEF Along, Holding
<1> QED
  BY <1>4, <1>5, <1>6, <1>7, <1>8 DEF StampInv, Progress

\* A stamper that is killed leaves its temporary file.
LEMMA KillStep ==
    ASSUME TypeOK, StampInv, NEW p \in Stampers, Kill(p)
    PROVE  StampInv'
<1>1. /\ UNCHANGED <<image, keep, names, out, disk, file, mapped, mode>>
      /\ orphans' = orphans \cup ({temp[p]} \ {None})
  BY DEF Kill
<1>2. /\ temp'[p] = None /\ pc'[p] = "idle" /\ source'[p] = None
      /\ \A q \in Stampers : q # p =>
            temp'[q] = temp[q] /\ pc'[q] = pc[q] /\ source'[q] = source[q]
  BY DEF Kill, TypeOK
<1>3. \A q \in Stampers : q # p /\ temp[q] # None => temp[q] # temp[p]
  BY DEF StampInv, Held, TempsOwned
<1>4. DiskInv'
  BY <1>1 DEF StampInv, DiskInv, Good
<1>5. Apart'
  BY <1>1, <1>2 DEF StampInv, Apart
<1>6. Held'
  <2>1. TempsOwned'
    <3>1. ASSUME NEW t \in Temps, names'[t] # None
          PROVE  t \in orphans' \/ \E q \in Stampers : temp'[q] = t
      <4>1. t \in orphans \/ \E q \in Stampers : temp[q] = t
        BY <1>1, <3>1 DEF StampInv, Held, TempsOwned
      <4> QED
        BY <1>1, <1>2, <4>1, StampAssumption
    <3>2. \A q, r \in Stampers : q # r /\ temp'[q] = temp'[r] => temp'[q] = None
      BY <1>2 DEF StampInv, Held, TempsOwned
    <3> QED
      BY <3>1, <3>2 DEF TempsOwned
  <2>2. ASSUME NEW q \in Stampers
        PROVE  /\ pc'[q] \in Holding => temp'[q] \in Temps
               /\ pc'[q] \notin Holding => temp'[q] = None
               /\ temp'[q] # None => names'[temp'[q]] # None /\ temp'[q] \notin orphans'
    BY <1>1, <1>2, <1>3 DEF StampInv, Held, Holding, TypeOK
  <2>3. \A u \in orphans' : names'[u] # None
    BY <1>1 DEF StampInv, Held, TypeOK
  <2> QED
    BY <2>1, <2>2, <2>3 DEF Held
<1>7. ASSUME NEW q \in Stampers, q # p
      PROVE  Along(q)'
  <2>1. Mine(q)' = Mine(q)
    BY <1>1, <1>2, <1>7 DEF Mine
  <2> QED
    BY <1>1, <1>2, <1>7, <2>1, OthersAlong
<1>8. Along(p)'
  BY <1>2 DEF Along, Holding
<1> QED
  BY <1>4, <1>5, <1>6, <1>7, <1>8 DEF StampInv, Progress

\* Hosts, the user and the disk do not touch a running stamper's file.
LEMMA OutsideStep ==
    ASSUME TypeOK, StampInv,
           \/ \E h \in Hosts : Load(h) \/ Unload(h)
           \/ \E t \in Temps : Sweep(t)
           \/ Commit
    PROVE  StampInv'
<1>1. UNCHANGED <<pc, source, image, keep, temp, out, file, mode>>
  BY DEF Load, Unload, Sweep, Commit, stamperVars, diskVars
<1>2. CASE \E h \in Hosts : Load(h) \/ Unload(h)
  <2>1. UNCHANGED <<names, disk, orphans>>
    BY <1>2 DEF Load, Unload, diskVars
  <2>2. \A h \in Hosts : mapped'[h] \in {mapped[h], out, None}
    BY <1>2 DEF Load, Unload, TypeOK
  <2>3. Apart'
    BY <1>1, <2>1, <2>2 DEF StampInv, Apart
  <2>4. DiskInv' /\ Held'
    BY <1>1, <2>1 DEF StampInv, DiskInv, Good, Held, TempsOwned
  <2>5. Progress'
    BY <1>1, <2>1 DEF StampInv, Progress, Along, Mine
  <2> QED
    BY <2>3, <2>4, <2>5 DEF StampInv
<1>3. CASE \E t \in Temps : Sweep(t)
  <2>1. PICK t \in Temps : Sweep(t)
    BY <1>3
  <2>2. /\ t \in orphans /\ orphans' = orphans \ {t}
        /\ UNCHANGED <<disk, mapped>>
        /\ names'[t] = None /\ \A u \in Temps : u # t => names'[u] = names[u]
    BY <2>1 DEF Sweep, TypeOK
  <2>3. \A q \in Stampers : temp[q] # None => temp[q] \in Temps /\ temp[q] # t
    BY <2>2 DEF StampInv, Held, TypeOK
  <2>4. DiskInv'
    BY <1>1, <2>2 DEF StampInv, DiskInv, Good
  <2>5. Apart'
    BY <1>1, <2>2 DEF StampInv, Apart
  <2>6. Held'
    BY <1>1, <2>2, <2>3 DEF StampInv, Held, TempsOwned, TypeOK
  <2>7. ASSUME NEW q \in Stampers
        PROVE  Along(q)'
    <3>1. pc[q] \in Holding => Mine(q)' = Mine(q)
      BY <1>1, <2>2, <2>3, StampAssumption DEF StampInv, Held, Mine
    <3>2. Along(q)
      BY DEF StampInv, Progress
    <3> QED
      BY <1>1, <3>1, <3>2 DEF Along, Holding
  <2> QED
    BY <2>4, <2>5, <2>6, <2>7 DEF StampInv, Progress
<1>4. CASE Commit
  <2>1. disk' = {out} /\ UNCHANGED <<names, orphans, mapped>>
    BY <1>4 DEF Commit
  <2>2. DiskInv' /\ Apart' /\ Held'
    BY <1>1, <2>1 DEF StampInv, DiskInv, Good, Apart, Held, TempsOwned
  <2>3. Progress'
    BY <1>1, <2>1 DEF StampInv, Progress, Along, Mine
  <2> QED
    BY <2>2, <2>3 DEF StampInv
<1> QED
  BY <1>2, <1>3, <1>4

LEMMA PowerLossStep ==
    ASSUME TypeOK, StampInv, PowerLoss
    PROVE  StampInv'
<1>1. /\ out' \in disk /\ disk' = {out'}
      /\ orphans' = {t \in Temps : names[t] # None}
      /\ UNCHANGED <<names, mode>>
      /\ \A q \in Stampers : pc'[q] = "idle" /\ source'[q] = None /\ temp'[q] = None
      /\ \A h \in Hosts : mapped'[h] = None
  BY DEF PowerLoss
<1>2. \A i \in Inodes : file[i].synced = TRUE => file'[i] = file[i]
  BY DEF PowerLoss
<1>3. DiskInv'
  BY <1>1, <1>2 DEF StampInv, DiskInv, Good, TypeOK
<1>4. Apart'
  BY <1>1 DEF StampInv, Apart
<1>5. Held'
  BY <1>1 DEF Held, TempsOwned, Holding
<1>6. Progress'
  BY <1>1 DEF Progress, Along, Holding
<1> QED
  BY <1>3, <1>4, <1>5, <1>6 DEF StampInv

LEMMA StampStep == TypeOK /\ StampInv /\ [Next]_vars => StampInv'
<1> SUFFICES ASSUME TypeOK, StampInv, [Next]_vars
             PROVE  StampInv'
  OBVIOUS
<1>1. CASE UNCHANGED vars
  <2>1. UNCHANGED <<pc, source, image, keep, temp, out, names, disk, file,
                    orphans, mapped, mode>>
    BY <1>1 DEF vars, stamperVars, diskVars
  <2>2. DiskInv' /\ Apart' /\ Held'
    BY <2>1 DEF StampInv, DiskInv, Good, Apart, Held, TempsOwned
  <2>3. Progress'
    BY <2>1 DEF StampInv, Progress, Along, Mine
  <2> QED
    BY <2>2, <2>3 DEF StampInv
<1>2. CASE Next
  BY <1>2, PrepareStep, CreateStep, FillStep, RenameStep, FailStep, KillStep,
     OutsideStep, PowerLossStep DEF Next
<1> QED
  BY <1>1, <1>2

-----------------------------------------------------------------------------
(* The theorems.                                                           *)

LEMMA StampInvariant == Spec => [](TypeOK /\ StampInv)
<1>1. Init => TypeOK /\ StampInv
  BY TypeInit, InitStampInv
<1>2. TypeOK /\ StampInv /\ [Next]_vars => (TypeOK /\ StampInv)'
  BY TypeStep, StampStep DEF StampInv
<1> QED
  BY <1>1, <1>2, PTL DEF Spec

\* Every variable keeps to its type.
THEOREM TypeCorrect == Spec => []TypeOK
<1> QED
  BY StampInvariant, PTL

\* The output is a whole library with one footer at most, however many
\* stampers there are and whichever are killed or fail, also after a power
\* loss (write_atomically, main.rs `stamp`).
THEOREM OutputCorrect == Spec => []OutputWhole
<1>1. StampInv => OutputWhole
  BY DEF StampInv, DiskInv, Good, OutputWhole
<1> QED
  BY <1>1, StampInvariant, PTL

\* The output keeps its permissions (write_atomically's set_permissions).
THEOREM ModeCorrect == Spec => []ModeKept
<1>1. StampInv => ModeKept
  BY DEF StampInv, DiskInv, Good, ModeKept
<1> QED
  BY <1>1, StampInvariant, PTL

\* A temporary file is one running stamper's, or a killed one left it
\* (create_temp and Temp's destructor).
THEOREM TempsCorrect == Spec => []TempsOwned
<1>1. StampInv => TempsOwned
  BY DEF StampInv, Held
<1> QED
  BY <1>1, StampInvariant, PTL

\* A file that a host has loaded, or a stamper reads, does not change under
\* it (write_atomically renames, and writes to a file of its own only).
THEOREM InUseCorrect == Spec => InUseUntouched
<1> DEFINE InUse(i) ==
        \/ \E h \in Hosts : mapped[h] = i /\ mapped'[h] = i
        \/ \E p \in Stampers : source[p] = i /\ source'[p] = i
<1>1. ASSUME TypeOK, StampInv, [Next]_vars, NEW i \in Inodes, InUse(i)
      PROVE  file'[i] = file[i]
  <2>1. \A t \in Temps : names[t] # i
    <3>1. i # None
      BY StampAssumption
    <3> QED
      BY <1>1, <3>1 DEF StampInv, Apart
  <2>2. ASSUME NEW p \in Stampers, Write(p) \/ SetPermissions(p) \/ Sync(p)
        PROVE  file'[i] = file[i]
    <3>1. pc[p] \in Holding
      BY <2>2 DEF Write, SetPermissions, Sync, Holding
    <3>2. Mine(p) # i
      BY <1>1, <2>1, <3>1, MineFacts DEF StampInv
    <3> QED
      BY <1>1, <2>2, <3>2 DEF Write, SetPermissions, Sync, TypeOK
  <2>3. ASSUME NEW p \in Stampers, Create(p)
        PROVE  file'[i] = file[i]
    <3>1. PICK j \in Inodes : Free(j) /\ file' = [file EXCEPT ![j] = New]
      BY <2>3 DEF Create
    <3>2. j # i
      BY <1>1, <3>1 DEF Free
    <3> QED
      BY <1>1, <3>1, <3>2 DEF TypeOK
  <2>4. ASSUME PowerLoss
        PROVE  file'[i] = file[i]
    BY <1>1, <2>4, StampAssumption DEF PowerLoss
  <2>5. ASSUME NEW p \in Stampers,
               \/ Open(p) \/ Stamp(p) \/ Look(p) \/ Rename(p) \/ Fail(p) \/ Kill(p)
        PROVE  file' = file
    BY <2>5 DEF Open, Stamp, Look, Rename, Fail, Kill, diskVars
  <2>6. ASSUME \/ \E h \in Hosts : Load(h) \/ Unload(h)
               \/ \E t \in Temps : Sweep(t)
               \/ Commit
        PROVE  file' = file
    BY <2>6 DEF Load, Unload, Sweep, Commit, diskVars
  <2>7. CASE UNCHANGED vars
    BY <2>7 DEF vars, diskVars
  <2>8. CASE Next
    BY <2>2, <2>3, <2>4, <2>5, <2>6, <2>8 DEF Next
  <2> QED
    BY <1>1, <2>7, <2>8
<1>2. TypeOK /\ StampInv /\ [Next]_vars
        => [\A i \in Inodes : InUse(i) => file'[i] = file[i]]_vars
  BY <1>1
<1> QED
  BY <1>2, StampInvariant, PTL DEF Spec, InUseUntouched
=============================================================================

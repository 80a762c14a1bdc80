------------------------- MODULE SpeechCacheProofs --------------------------
(***************************************************************************)
(* Proofs about the cache of the caller's voice, for any number of         *)
(* processes, callers, sentences and lines, and any faults.                *)
(***************************************************************************)
EXTENDS SpeechCache, SequenceTheorems, TLAPS

-----------------------------------------------------------------------------
(* The inductive invariant.                                                *)

(* A caller is at a sentence of its line. *)
PartInv == \A c \in Callers : part[c] \in DOMAIN Lines[line[c]]

(* Only whole answers are written. *)
DamageInv ==
    /\ OnlyWritersDamageAnEntry
    /\ \A c \in Callers : at[c] \in {"open", "writing"} => audio[c] = "whole"

Stored == {"have", "open", "writing"}
OfDefaults(t) == \E i \in 1..Defaults : \E k \in DOMAIN Lines[i] : Lines[i][k] = t

(* Warming is the work of a process' first caller, who leaves in memory    *)
(* every sentence up to the one it is at.                                  *)
Warming(c) ==
    IF c[2] # 1 THEN at[c] = "idle" ELSE
        /\ line[c] <= Defaults
        /\ \A i \in 1..(line[c] - 1) : \A k \in DOMAIN Lines[i] :
               mem[c[1]][Lines[i][k]] # "none"
        /\ \A k \in 1..(part[c] - 1) : mem[c[1]][Lines[line[c]][k]] # "none"
        /\ at[c] \in Stored => mem[c[1]][Text(c)] # "none"

(* A caller of a warmed process asks for no sentence of a node's own line. *)
Calling(c) == at[c] \in {"idle", "memory", "have"} \/ ~OfDefaults(Text(c))

(* What was warmed stays. *)
WarmInv ==
    /\ Procs \ Warms \subseteq loaded
    /\ \A c \in Callers : c[1] \notin loaded => Warming(c)
    /\ \A p \in Warms \cap loaded : \A t \in Texts :
           OfDefaults(t) => mem[p][t] # "none"
    /\ \A c \in Callers : c[1] \in Warms \cap loaded => Calling(c)

IInv == CacheTypeOK /\ PartInv /\ DamageInv /\ WarmInv

-----------------------------------------------------------------------------
(* The constants. *)
LEMMA CallersAreThreads ==
    /\ \A c \in Callers : c[1] \in Procs /\ c = <<c[1], c[2]>>
    /\ \A p \in Procs : <<p, 1>> \in Callers
BY CacheAssumption DEF Callers

(* What the assumptions say of the lines.                                  *)
LEMMA LinesHaveSentences ==
    /\ Defaults \in Nat /\ DOMAIN Lines = 1..Len(Lines) /\ Len(Lines) \in Nat
    /\ Defaults \in 1..Len(Lines)
    /\ \A i \in DOMAIN Lines :
        /\ Len(Lines[i]) \in Nat \ {0} /\ DOMAIN Lines[i] = 1..Len(Lines[i])
        /\ \A k \in DOMAIN Lines[i] : Lines[i][k] \in Texts
<1>1. /\ Defaults \in DOMAIN Lines /\ Lines \in Seq(Seq(Texts) \ {<<>>})
  BY CacheAssumption
<1>2. /\ DOMAIN Lines = 1..Len(Lines) /\ Len(Lines) \in Nat
  BY <1>1
<1>3. ASSUME NEW i \in DOMAIN Lines
      PROVE  /\ Len(Lines[i]) \in Nat \ {0} /\ DOMAIN Lines[i] = 1..Len(Lines[i])
             /\ \A k \in DOMAIN Lines[i] : Lines[i][k] \in Texts
  <2>1. Lines[i] \in Seq(Texts) /\ Lines[i] # <<>>
    BY <1>1, <1>2
  <2>2. QED
    BY <2>1, EmptySeq
<1>4. QED
  BY <1>1, <1>2, <1>3

(* There is a first line, and each has a first sentence.                   *)
LEMMA FirstsExist ==
    /\ 1 \in DOMAIN Lines /\ \A l \in DOMAIN Lines : 1 \in DOMAIN Lines[l]
    /\ MaxCrashes \in Nat /\ MaxFailures \in Nat
<1>1. MaxCrashes \in Nat /\ MaxFailures \in Nat
  BY CacheAssumption
<1>2. Defaults \in 1..Len(Lines) /\ Len(Lines) \in Nat /\ DOMAIN Lines = 1..Len(Lines)
  BY LinesHaveSentences
<1>3. ASSUME NEW l \in DOMAIN Lines PROVE 1 \in DOMAIN Lines[l]
  <2>1. Len(Lines[l]) \in Nat \ {0} /\ DOMAIN Lines[l] = 1..Len(Lines[l])
    BY LinesHaveSentences
  <2>2. QED
    BY <2>1
<1>4. 1 \in DOMAIN Lines
  BY <1>2
<1>5. QED
  BY <1>1, <1>3, <1>4

(* What follows a line or a sentence that is not the last is one.          *)
LEMMA NextsExist ==
    /\ \A l \in DOMAIN Lines : l \in Nat /\ (~(l >= Defaults) => l + 1 \in DOMAIN Lines)
    /\ \A l \in DOMAIN Lines : \A k \in DOMAIN Lines[l] :
           k < Len(Lines[l]) => k + 1 \in DOMAIN Lines[l]
<1>1. Defaults \in 1..Len(Lines) /\ Len(Lines) \in Nat /\ DOMAIN Lines = 1..Len(Lines)
  BY LinesHaveSentences
<1>2. ASSUME NEW l \in DOMAIN Lines, NEW k \in DOMAIN Lines[l], k < Len(Lines[l])
      PROVE  k + 1 \in DOMAIN Lines[l]
  <2>1. Len(Lines[l]) \in Nat \ {0} /\ DOMAIN Lines[l] = 1..Len(Lines[l])
    BY LinesHaveSentences
  <2>2. QED
    BY <1>2, <2>1
<1>3. \A l \in DOMAIN Lines : l \in Nat /\ (~(l >= Defaults) => l + 1 \in DOMAIN Lines)
  BY <1>1
<1>4. QED
  BY <1>2, <1>3

(* What a caller has in hand to say is a sentence. *)
LEMMA TextsAreSentences ==
    ASSUME CacheTypeOK, PartInv, NEW c \in Callers PROVE Text(c) \in Texts
BY LinesHaveSentences DEF CacheTypeOK, PartInv, Text

-----------------------------------------------------------------------------
(* Earlier runs' entries are whole, and nothing else has happened yet. *)
LEMMA InvInit == CacheInit => IInv
<1> SUFFICES ASSUME CacheInit PROVE IInv
  OBVIOUS
<1> USE LinesHaveSentences, CallersAreThreads, CacheAssumption DEF CacheInit, NothingCached
<1>1. CacheTypeOK
  BY DEF CacheTypeOK
<1>2. PartInv
  BY DEF PartInv
<1>3. DamageInv
  BY DEF DamageInv, OnlyWritersDamageAnEntry
<1>4. WarmInv
  BY DEF WarmInv, Warming, Calling, Stored
<1>5. QED
  BY <1>1, <1>2, <1>3, <1>4 DEF IInv

(* What a process keeps in memory is added to what it kept. *)
LEMMA MemPutAdds ==
    ASSUME CacheTypeOK, NEW p \in Procs, NEW t \in Texts,
           NEW pcm \in {"whole", "damaged"}, MemPut(p, t, pcm)
    PROVE  /\ mem' \in [Procs -> [Texts -> {"none", "whole", "damaged"}]]
           /\ mem'[p][t] # "none"
           /\ \A q \in Procs : \A u \in Texts : mem[q][u] # "none" => mem'[q][u] # "none"
<1>1. mem \in [Procs -> [Texts -> {"none", "whole", "damaged"}]]
  BY DEF CacheTypeOK
<1>2. mem' = [mem EXCEPT ![p] = [mem[p] EXCEPT ![t] = pcm]]
  BY <1>1 DEF MemPut
<1>3. [mem[p] EXCEPT ![t] = pcm] \in [Texts -> {"none", "whole", "damaged"}]
  BY <1>1
<1>4. mem' \in [Procs -> [Texts -> {"none", "whole", "damaged"}]]
  BY <1>1, <1>2, <1>3
<1>5. mem'[p] = [mem[p] EXCEPT ![t] = pcm] /\ \A q \in Procs \ {p} : mem'[q] = mem[q]
  BY <1>1, <1>2
<1>6. QED
  BY <1>1, <1>4, <1>5

(* A count below its bound may rise. *)
LEMMA CountRises ==
    ASSUME NEW m \in Nat, NEW n \in 0..m, n < m PROVE n + 1 \in 0..m
OBVIOUS

(* A caller's place in its line may rise. *)
LEMMA PartRises ==
    ASSUME NEW p \in [Callers -> Nat], NEW c \in Callers
    PROVE  [p EXCEPT ![c] = @ + 1] \in [Callers -> Nat]
<1>1. p[c] + 1 \in Nat
  OBVIOUS
<1>2. QED
  BY <1>1

(* Types, and the place in a line. *)
LEMMA TypeStep ==
    ASSUME CacheTypeOK, PartInv, DamageInv, [CacheNext]_cacheVars
    PROVE  CacheTypeOK'
<1>a. /\ part \in [Callers -> Nat]
      /\ crashes \in 0..MaxCrashes /\ failures \in 0..MaxFailures
  BY DEF CacheTypeOK
<1>b. ASSUME NEW p \in Procs, NEW t \in Texts, NEW pcm \in {"whole", "damaged"},
             MemPut(p, t, pcm)
      PROVE  mem' \in [Procs -> [Texts -> {"none", "whole", "damaged"}]]
  BY <1>b, MemPutAdds
<1>c. /\ MaxCrashes \in Nat /\ MaxFailures \in Nat
      /\ crashes < MaxCrashes => crashes + 1 \in 0..MaxCrashes
      /\ failures < MaxFailures => failures + 1 \in 0..MaxFailures
  BY <1>a, FirstsExist, CountRises
<1>d. ASSUME NEW c \in Callers, part' = [part EXCEPT ![c] = @ + 1]
      PROVE  part' \in [Callers -> Nat]
  BY <1>a, <1>d, PartRises
<1> USE DEF CacheTypeOK, Moves
<1>1. ASSUME NEW p \in Procs, WarmNext(p) PROVE CacheTypeOK'
  BY <1>1, CallersAreThreads DEF WarmNext
<1>2. ASSUME NEW p \in Procs, ProcessDies(p) PROVE CacheTypeOK'
  <2>1. 1 \in DOMAIN Lines /\ MaxCrashes \in Nat
    BY FirstsExist
  <2>2. QED
    <3>1. mem' \in [Procs -> [Texts -> {"none", "whole", "damaged"}]]
      BY <1>2 DEF ProcessDies
    <3>2. /\ at' \in [Callers -> {"idle", "memory", "disk", "fetch", "open",
                                  "writing", "have", "gave up"}]
          /\ audio' \in [Callers -> {"none", "whole", "damaged"}]
      BY <1>2 DEF ProcessDies
    <3>3. line' \in [Callers -> DOMAIN Lines] /\ part' \in [Callers -> Nat]
      BY <1>2, <2>1 DEF ProcessDies
    <3>4. loaded' \subseteq Procs /\ spoiled' \subseteq Texts
      BY <1>2 DEF ProcessDies
    <3>5. crashes' \in 0..MaxCrashes /\ UNCHANGED <<disk, failures>>
      BY <1>2, <1>c DEF ProcessDies
    <3>6. QED
      BY <3>1, <3>2, <3>3, <3>4, <3>5
<1>3. ASSUME NEW c \in Callers, NEW l \in DOMAIN Lines, CallNeeds(c, l)
      PROVE  CacheTypeOK'
  BY <1>3 DEF CallNeeds
<1>4. ASSUME NEW c \in Callers, NextPart(c) PROVE CacheTypeOK'
  <2>1. c[1] \in Procs /\ 1 \in DOMAIN Lines /\ line[c] \in DOMAIN Lines
    BY CallersAreThreads, FirstsExist
  <2>2. ~(line[c] >= Defaults) => line[c] + 1 \in DOMAIN Lines
    BY <2>1, NextsExist
  <2>3. CASE Moves(c, "memory") /\ part' = [part EXCEPT ![c] = @ + 1] /\ UNCHANGED <<line, loaded>>
    <3>1. part' \in [Callers -> Nat]
      BY <2>3, <1>d
    <3>2. audio' = [audio EXCEPT ![c] = "none"] /\ UNCHANGED <<mem, disk, spoiled, crashes, failures>>
      BY <1>4 DEF NextPart
    <3>3. QED
      BY <2>3, <3>1, <3>2
  <2>4. CASE Moves(c, "idle") /\ part' = [part EXCEPT ![c] = 1] /\ UNCHANGED loaded
             /\ \/ line' = [line EXCEPT ![c] = 1]
                \/ ~WarmsLast(c) /\ line' = [line EXCEPT ![c] = @ + 1]
    BY <1>4, <2>1, <2>2, <2>4 DEF NextPart, WarmsLast
  <2>5. CASE Moves(c, "idle") /\ part' = [part EXCEPT ![c] = 1]
             /\ loaded' = loaded \cup {c[1]} /\ line' = [line EXCEPT ![c] = 1]
    BY <1>4, <2>1, <2>5 DEF NextPart
  <2>6. QED
    BY <1>4, <2>3, <2>4, <2>5 DEF NextPart
<1>5. ASSUME NEW c \in Callers, MemGet(c) PROVE CacheTypeOK'
  BY <1>5, TextsAreSentences, CallersAreThreads DEF MemGet
<1>6. ASSUME NEW c \in Callers, ReadEntry(c) PROVE CacheTypeOK'
  <2>1. c[1] \in Procs /\ Text(c) \in Texts
    BY TextsAreSentences, CallersAreThreads
  <2>2. CASE disk[Text(c)] \in {"none", "empty"}
    BY <1>6, <2>2 DEF ReadEntry
  <2>3. CASE disk[Text(c)] \in {"whole", "damaged"}
    <3>1. MemPut(c[1], Text(c), disk[Text(c)])
      BY <1>6, <2>3 DEF ReadEntry, KeepsRead
    <3>2. mem' = [mem EXCEPT ![c[1]][Text(c)] = disk[Text(c)]]
      BY <3>1 DEF MemPut
    <3>3. [mem[c[1]] EXCEPT ![Text(c)] = disk[Text(c)]] \in [Texts -> {"none", "whole", "damaged"}]
      BY <2>1, <2>3
    <3>4. mem' \in [Procs -> [Texts -> {"none", "whole", "damaged"}]]
      BY <2>1, <3>2, <3>3
    <3>5. QED
      BY <1>6, <2>1, <2>3, <3>4 DEF ReadEntry
  <2>4. QED
    BY <2>1, <2>2, <2>3
<1>7. ASSUME NEW c \in Callers, Request(c) PROVE CacheTypeOK'
  <2>1. 1 \in DOMAIN Lines /\ MaxFailures \in Nat /\ c[1] \in Procs /\ Text(c) \in Texts
    BY FirstsExist, TextsAreSentences, CallersAreThreads
  <2>2. QED
    <3>1. CASE MemPut(c[1], Text(c), "whole") /\ audio' = [audio EXCEPT ![c] = "whole"]
               /\ Moves(c, "open") /\ UNCHANGED <<failures, part, line>>
      <4>1. mem' \in [Procs -> [Texts -> {"none", "whole", "damaged"}]]
        BY <2>1, <3>1, <1>b
      <4>2. QED
        BY <1>7, <3>1, <4>1 DEF Request
    <3>2. CASE /\ failures < MaxFailures /\ failures' = failures + 1
               /\ Moves(c, "idle") \/ Moves(c, "gave up")
               /\ part' = [part EXCEPT ![c] = 1] /\ line' = [line EXCEPT ![c] = 1]
               /\ UNCHANGED <<mem, audio>>
      <4>1. failures' \in 0..MaxFailures
        BY <3>2, <1>c
      <4>2. at' \in [Callers -> {"idle", "memory", "disk", "fetch", "open",
                                "writing", "have", "gave up"}]
        BY <3>2
      <4>3. /\ line' \in [Callers -> DOMAIN Lines] /\ part' \in [Callers -> Nat]
            /\ UNCHANGED <<mem, audio, disk, loaded, spoiled, crashes>>
        BY <1>7, <2>1, <3>2 DEF Request
      <4>4. QED
        BY <4>1, <4>2, <4>3
    <3>3. QED
      BY <1>7, <3>1, <3>2 DEF Request, Fetched
<1>8. ASSUME NEW c \in Callers, OpenEntry(c) \/ WriteSome(c) PROVE CacheTypeOK'
  BY <1>8, TextsAreSentences DEF OpenEntry, WriteSome, threadVars
<1>9. ASSUME NEW c \in Callers, CloseEntry(c) PROVE CacheTypeOK'
  <2>1. audio[c] = "whole"
    BY <1>9 DEF CloseEntry, DamageInv
  <2>2. QED
    BY <1>9, <2>1, TextsAreSentences DEF CloseEntry
<1>10. ASSUME NEW c \in Callers, WriteFails(c) PROVE CacheTypeOK'
  <2>1. failures' \in 0..MaxFailures
    BY <1>10, <1>c DEF WriteFails
  <2>2. spoiled' \subseteq Texts
    BY <1>10, TextsAreSentences DEF WriteFails
  <2>3. QED
    BY <1>10, <2>1, <2>2 DEF WriteFails
<1>11. CASE UNCHANGED cacheVars
  BY <1>11 DEF cacheVars, threadVars
<1>12. QED
  BY <1>1, <1>2, <1>3, <1>4, <1>5, <1>6, <1>7, <1>8, <1>9, <1>10, <1>11
  DEF CacheNext, Synthesize

(* A caller that goes on has a sentence to go on to. *)
LEMMA PartStep ==
    ASSUME CacheTypeOK, PartInv, [CacheNext]_cacheVars
    PROVE  PartInv'
<1> USE DEF PartInv
<1>0. line \in [Callers -> DOMAIN Lines] /\ part \in [Callers -> Nat]
  BY DEF CacheTypeOK
<1>1. 1 \in DOMAIN Lines /\ \A l \in DOMAIN Lines : 1 \in DOMAIN Lines[l]
  BY FirstsExist
<1>2. ASSUME UNCHANGED <<line, part>> PROVE PartInv'
  BY <1>2
<1>3. ASSUME NEW p \in Procs, ProcessDies(p) PROVE PartInv'
  BY <1>0, <1>1, <1>3 DEF ProcessDies
<1>4. ASSUME NEW c \in Callers, NEW l \in DOMAIN Lines, CallNeeds(c, l)
      PROVE  PartInv'
  BY <1>0, <1>1, <1>4 DEF CallNeeds
<1>5. ASSUME NEW c \in Callers, NextPart(c) PROVE PartInv'
  <2>1. CASE part[c] < Len(Lines[line[c]]) /\ part' = [part EXCEPT ![c] = @ + 1]
             /\ UNCHANGED line
    BY <1>0, <2>1, NextsExist
  <2>2. CASE part' = [part EXCEPT ![c] = 1]
    <3>1. \E l \in DOMAIN Lines : line' = [line EXCEPT ![c] = l]
      BY <1>0, <1>1, <1>5, <2>2, NextsExist DEF NextPart, WarmsLast
    <3>2. QED
      BY <1>0, <1>1, <2>2, <3>1
  <2>3. QED
    BY <1>5, <2>1, <2>2 DEF NextPart
<1>6. ASSUME NEW c \in Callers, Request(c) PROVE PartInv'
  <2>1. CASE UNCHANGED <<line, part>>
    BY <1>2, <2>1
  <2>2. CASE part' = [part EXCEPT ![c] = 1] /\ line' = [line EXCEPT ![c] = 1]
    BY <1>0, <1>1, <2>2
  <2>3. QED
    BY <1>6, <2>1, <2>2 DEF Request
<1>7. QED
  BY <1>2, <1>3, <1>4, <1>5, <1>6 DEF CacheNext, Synthesize, WarmNext, MemGet, ReadEntry,
     OpenEntry, WriteSome, CloseEntry, WriteFails, cacheVars, threadVars

-----------------------------------------------------------------------------
(* A step of one caller leaves the others where they are. *)
StepOf(c) ==
    \/ Synthesize(c)
    \/ \E l \in DOMAIN Lines : CallNeeds(c, l)
    \/ c[2] = 1 /\ WarmNext(c[1])

Stays(d) ==
    at'[d] = at[d] /\ line'[d] = line[d] /\ part'[d] = part[d] /\ audio'[d] = audio[d]

(* A step is one caller's, or the death of a process.                      *)
LEMMA StepsAreCallers ==
    ASSUME CacheNext
    PROVE  (\E c \in Callers : StepOf(c)) \/ \E p \in Procs : ProcessDies(p)
<1>1. ASSUME NEW p \in Procs, WarmNext(p) PROVE \E c \in Callers : StepOf(c)
  <2>1. <<p, 1>> \in Callers /\ <<p, 1>>[1] = p /\ <<p, 1>>[2] = 1
    BY CallersAreThreads
  <2>2. StepOf(<<p, 1>>)
    BY <1>1, <2>1 DEF StepOf
  <2>3. QED
    BY <2>1, <2>2
<1>2. QED
  BY <1>1 DEF CacheNext, StepOf

(* A caller's step leaves the other callers where they are.                *)
LEMMA OthersStay ==
    ASSUME CacheTypeOK, NEW c \in Callers, StepOf(c)
    PROVE  \A d \in Callers \ {c} : Stays(d)
<1>1. /\ at \in [Callers -> {"idle", "memory", "disk", "fetch", "open",
                             "writing", "have", "gave up"}]
      /\ line \in [Callers -> DOMAIN Lines] /\ part \in [Callers -> Nat]
      /\ audio \in [Callers -> {"none", "whole", "damaged"}]
  BY DEF CacheTypeOK
<1> USE <1>1 DEF Stays, Moves
<1>2. ASSUME NEW l \in DOMAIN Lines, CallNeeds(c, l)
      PROVE  \A d \in Callers \ {c} : Stays(d)
  BY <1>2 DEF CallNeeds
<1>3. ASSUME c[2] = 1, WarmNext(c[1]) PROVE \A d \in Callers \ {c} : Stays(d)
  <2>1. c = <<c[1], 1>>
    BY <1>3, CallersAreThreads
  <2>2. QED
    BY <1>3, <2>1 DEF WarmNext
<1>4. ASSUME NextPart(c) PROVE \A d \in Callers \ {c} : Stays(d)
  BY <1>4 DEF NextPart
<1>5. ASSUME Request(c) PROVE \A d \in Callers \ {c} : Stays(d)
  BY <1>5 DEF Request
<1>6. ASSUME \/ MemGet(c) \/ ReadEntry(c) \/ OpenEntry(c) \/ WriteSome(c) \/ CloseEntry(c)
             \/ WriteFails(c)
      PROVE  \A d \in Callers \ {c} : Stays(d)
  BY <1>6 DEF MemGet, ReadEntry, OpenEntry, WriteSome, CloseEntry, WriteFails, threadVars
<1>7. QED
  BY <1>2, <1>3, <1>4, <1>5, <1>6 DEF StepOf, Synthesize

-----------------------------------------------------------------------------
(* Damage. *)
LEMMA WritersRemain ==
    ASSUME NEW c \in Callers, \A d \in Callers \ {c} : Stays(d), NEW t \in Texts
    PROVE  Writing(t) \ {c} \subseteq Writing(t)'
<1>1. ASSUME NEW d \in Writing(t) \ {c} PROVE d \in Writing(t)'
  <2>1. d \in Callers \ {c} /\ at[d] = "writing" /\ Lines[line[d]][part[d]] = t
    BY DEF Writing, Text
  <2>2. at'[d] = "writing" /\ Lines[line'[d]][part'[d]] = t
    BY <2>1 DEF Stays
  <2>3. QED
    BY <2>1, <2>2 DEF Writing, Text
<1>2. QED
  BY <1>1

(* A caller that neither writes nor did leaves the directory as it is. *)
LEMMA NoDamage ==
    ASSUME DamageInv, NEW c \in Callers, \A d \in Callers \ {c} : Stays(d),
           at[c] # "writing", UNCHANGED <<disk, spoiled>>,
           at'[c] \in {"open", "writing"} => audio'[c] = "whole"
    PROVE  DamageInv'
<1>1. ASSUME NEW t \in Texts, disk'[t] = "damaged", Writing(t)' = {}
      PROVE  t \in spoiled'
  <2>1. Writing(t) = {}
    <3>1. c \notin Writing(t)
      BY DEF Writing
    <3>2. Writing(t) \ {c} \subseteq Writing(t)'
      BY WritersRemain
    <3>3. QED
      BY <1>1, <3>1, <3>2
  <2>2. QED
    BY <1>1, <2>1 DEF DamageInv, OnlyWritersDamageAnEntry
<1>2. \A d \in Callers : at'[d] \in {"open", "writing"} => audio'[d] = "whole"
  BY DEF DamageInv, Stays
<1>3. QED
  BY <1>1, <1>2 DEF DamageInv, OnlyWritersDamageAnEntry

(* A caller that opens or writes an entry touches that one only. *)
LEMMA OneEntry ==
    ASSUME CacheTypeOK, DamageInv, NEW c \in Callers,
           \A d \in Callers \ {c} : Stays(d),
           \A t \in Texts : t # Text(c) => disk'[t] = disk[t],
           spoiled \subseteq spoiled', Text(c)' = Text(c),
           disk'[Text(c)] # "damaged" \/ Writing(Text(c))' # {} \/ Text(c) \in spoiled',
           audio' = audio, at[c] \in {"open", "writing"}
    PROVE  DamageInv'
<1>1. ASSUME NEW t \in Texts, disk'[t] = "damaged", Writing(t)' = {}
      PROVE  t \in spoiled'
  <2>1. CASE t = Text(c)
    BY <1>1, <2>1
  <2>2. CASE t # Text(c)
    <3>1. c \notin Writing(t)
      BY <2>2 DEF Writing
    <3>2. Writing(t) \ {c} \subseteq Writing(t)'
      BY WritersRemain
    <3>3. Writing(t) = {}
      BY <1>1, <3>1, <3>2
    <3>4. disk[t] = "damaged"
      BY <1>1, <2>2
    <3>5. QED
      BY <3>3, <3>4 DEF DamageInv, OnlyWritersDamageAnEntry
  <2>3. QED
    BY <2>1, <2>2
<1>2. \A d \in Callers : at'[d] \in {"open", "writing"} => audio'[d] = "whole"
  BY DEF DamageInv, Stays
<1>3. QED
  BY <1>1, <1>2 DEF DamageInv, OnlyWritersDamageAnEntry

(* No step damages an entry nobody writes, but for the faults. *)
LEMMA DamageStep ==
    ASSUME CacheTypeOK, PartInv, DamageInv, [CacheNext]_cacheVars
    PROVE  DamageInv'
<1>a. /\ at \in [Callers -> {"idle", "memory", "disk", "fetch", "open",
                             "writing", "have", "gave up"}]
      /\ audio \in [Callers -> {"none", "whole", "damaged"}]
      /\ disk \in [Texts -> {"none", "empty", "whole", "damaged"}]
      /\ \A c \in Callers : Text(c) \in Texts
  BY TextsAreSentences DEF CacheTypeOK
<1>1. ASSUME NEW c \in Callers, StepOf(c) PROVE DamageInv'
  <2>0. \A d \in Callers \ {c} : Stays(d)
    BY <1>1, OthersStay
  <2>1. CASE \E l \in DOMAIN Lines : CallNeeds(c, l)
    <3>1. at[c] # "writing" /\ at'[c] = "memory" /\ UNCHANGED <<disk, spoiled>>
      BY <1>a, <2>1 DEF CallNeeds, Moves
    <3>2. QED
      BY <2>0, <3>1, NoDamage
  <2>2. CASE c[2] = 1 /\ WarmNext(c[1])
    <3>0. c = <<c[1], 1>>
      BY <2>2, CallersAreThreads
    <3>1. at[c] # "writing" /\ at'[c] = "memory" /\ UNCHANGED <<disk, spoiled>>
      BY <1>a, <2>2, <3>0 DEF WarmNext, Moves
    <3>2. QED
      BY <2>0, <3>1, NoDamage
  <2>3. CASE NextPart(c) \/ MemGet(c)
    <3>1. at[c] # "writing" /\ UNCHANGED <<disk, spoiled>>
      BY <2>3 DEF NextPart, MemGet
    <3>2. at'[c] \notin {"open", "writing"}
      BY <1>a, <2>3 DEF NextPart, MemGet, Moves
    <3>3. QED
      BY <2>0, <3>1, <3>2, NoDamage
  <2>4. CASE ReadEntry(c)
    <3>1. at[c] # "writing" /\ UNCHANGED <<disk, spoiled>>
      BY <2>4 DEF ReadEntry
    <3>2. at'[c] \notin {"open", "writing"}
      BY <1>a, <2>4 DEF ReadEntry, Moves
    <3>3. QED
      BY <2>0, <3>1, <3>2, NoDamage
  <2>5. CASE Request(c)
    <3>1. at[c] # "writing" /\ UNCHANGED <<disk, spoiled>>
      BY <2>5 DEF Request
    <3>2. at'[c] \in {"open", "writing"} => audio'[c] = "whole"
      BY <1>a, <2>5 DEF Request, Fetched, Moves
    <3>3. QED
      BY <2>0, <3>1, <3>2, NoDamage
  <2>6. CASE OpenEntry(c)
    <3>1. /\ disk' = [disk EXCEPT ![Text(c)] = "empty"] /\ at[c] = "open"
          /\ spoiled \subseteq spoiled' /\ UNCHANGED <<line, part, audio>>
      BY <2>6 DEF OpenEntry
    <3>2. disk'[Text(c)] # "damaged" /\ Text(c)' = Text(c)
          /\ \A t \in Texts : t # Text(c) => disk'[t] = disk[t]
      BY <1>a, <3>1 DEF Text
    <3>3. QED
      BY <2>0, <3>1, <3>2, OneEntry
  <2>7. CASE WriteSome(c)
    <3>1. /\ disk' = [disk EXCEPT ![Text(c)] = "damaged"] /\ at[c] = "writing"
          /\ UNCHANGED <<at, line, part, audio, spoiled>>
      BY <2>7 DEF WriteSome, threadVars
    <3>2. Text(c)' = Text(c) /\ \A t \in Texts : t # Text(c) => disk'[t] = disk[t]
      BY <1>a, <3>1 DEF Text
    <3>3. c \in Writing(Text(c))'
      BY <3>1 DEF Writing, Text
    <3>4. QED
      BY <2>0, <3>1, <3>2, <3>3, OneEntry
  <2>8. CASE CloseEntry(c)
    <3>1. /\ at[c] = "writing" /\ audio[c] = "whole"
          /\ UNCHANGED <<line, part, audio, spoiled>>
      BY <2>8 DEF CloseEntry, DamageInv
    <3>2. PICK left \in {"whole", "damaged"} :
             /\ disk' = [disk EXCEPT ![Text(c)] = left]
             /\ Text(c) \in spoiled \/ left = "whole"
      BY <2>8, <3>1 DEF CloseEntry
    <3>3. Text(c)' = Text(c) /\ disk'[Text(c)] = left
          /\ \A t \in Texts : t # Text(c) => disk'[t] = disk[t]
      BY <1>a, <3>1, <3>2 DEF Text
    <3>4. QED
      BY <2>0, <3>1, <3>2, <3>3, OneEntry
  <2>9. CASE WriteFails(c) /\ at[c] = "open"
    <3>1. at[c] # "writing" /\ at'[c] = "have" /\ UNCHANGED <<disk, spoiled>>
      BY <1>a, <2>9 DEF WriteFails, Moves
    <3>2. QED
      BY <2>0, <3>1, NoDamage
  <2>10. CASE WriteFails(c) /\ at[c] = "writing"
    <3>1. Text(c)' = Text(c) /\ UNCHANGED <<disk, audio>> /\ spoiled \subseteq spoiled'
      BY <2>10 DEF WriteFails, Text
    <3>2. disk[Text(c)] # "damaged" \/ Text(c) \in spoiled'
      BY <2>10 DEF WriteFails
    <3>3. QED
      BY <2>0, <2>10, <3>1, <3>2, OneEntry
  <2>11. QED
    BY <1>1, <2>1, <2>2, <2>3, <2>4, <2>5, <2>6, <2>7, <2>8, <2>9, <2>10
    DEF StepOf, Synthesize, WriteFails
<1>2. ASSUME NEW p \in Procs, ProcessDies(p) PROVE DamageInv'
  <2>1. \A d \in Callers : d[1] # p => Stays(d)
    BY <1>2 DEF ProcessDies, Stays
  <2>2. \A d \in Callers : d[1] = p => at'[d] = "idle"
    BY <1>2 DEF ProcessDies
  <2>3. ASSUME NEW t \in Texts, disk'[t] = "damaged", Writing(t)' = {}
        PROVE  t \in spoiled'
    <3>1. disk[t] = "damaged" /\ spoiled \subseteq spoiled'
      BY <1>2, <2>3 DEF ProcessDies
    <3>2. CASE \E c \in Writing(t) : c[1] = p
      BY <1>2, <3>2 DEF ProcessDies
    <3>3. CASE \A c \in Writing(t) : c[1] # p
      <4>1. \A c \in Writing(t) : c \in Writing(t)'
        BY <2>1, <3>3 DEF Writing, Text, Stays
      <4>2. QED
        BY <2>3, <3>1, <4>1 DEF DamageInv, OnlyWritersDamageAnEntry
    <3>4. QED
      BY <3>2, <3>3
  <2>4. \A d \in Callers : at'[d] \in {"open", "writing"} => audio'[d] = "whole"
    BY <2>1, <2>2 DEF DamageInv, Stays
  <2>5. QED
    BY <2>3, <2>4 DEF DamageInv, OnlyWritersDamageAnEntry
<1>3. CASE UNCHANGED cacheVars
  <2>1. UNCHANGED <<disk, spoiled, at, line, part, audio>>
    BY <1>3 DEF cacheVars, threadVars
  <2>2. \A t \in Texts : Writing(t)' = Writing(t)
    BY <2>1 DEF Writing, Text
  <2>3. QED
    BY <2>1, <2>2 DEF DamageInv, OnlyWritersDamageAnEntry
<1>4. QED
  BY <1>1, <1>2, <1>3, StepsAreCallers

-----------------------------------------------------------------------------
(* Warmth. *)
Grows == \A q \in Procs : \A u \in Texts : mem[q][u] # "none" => mem'[q][u] # "none"

(* A process is at a line it warms, and all its sentences are ones. *)
LEMMA OwnTextsAreSentences ==
    /\ \A i \in 1..Defaults : i \in DOMAIN Lines
    /\ \A i \in DOMAIN Lines : \A k \in DOMAIN Lines[i] : Lines[i][k] \in Texts
BY LinesHaveSentences

(* What a caller warmed stays while it is at the same sentence. *)
LEMMA WarmingMoves ==
    ASSUME PartInv, Grows, NEW d \in Callers, Warming(d),
           line'[d] = line[d], part'[d] = part[d],
           d[2] # 1 => at'[d] = "idle",
           at'[d] \in Stored => mem'[d[1]][Text(d)] # "none",
           part[d] \in Nat, line[d] \in DOMAIN Lines
    PROVE  Warming(d)'
<1>1. CASE d[2] # 1
  BY <1>1 DEF Warming
<1>2. CASE d[2] = 1
  <2>0. d[1] \in Procs
    BY CallersAreThreads
  <2>1. line'[d] <= Defaults
    BY <1>2 DEF Warming
  <2>2. ASSUME NEW i \in 1..(line[d] - 1), NEW k \in DOMAIN Lines[i]
        PROVE  mem'[d[1]][Lines[i][k]] # "none"
    <3>1. i \in DOMAIN Lines
      BY LinesHaveSentences
    <3>2. Lines[i][k] \in Texts /\ mem[d[1]][Lines[i][k]] # "none"
      BY <1>2, <3>1, OwnTextsAreSentences DEF Warming
    <3>3. QED
      BY <2>0, <3>2 DEF Grows
  <2>3. ASSUME NEW k \in 1..(part[d] - 1)
        PROVE  mem'[d[1]][Lines[line[d]][k]] # "none"
    <3>1. part[d] \in DOMAIN Lines[line[d]]
      BY DEF PartInv
    <3>2. k \in DOMAIN Lines[line[d]]
      BY <3>1, LinesHaveSentences
    <3>3. /\ Lines[line[d]][k] \in Texts
          /\ mem[d[1]][Lines[line[d]][k]] # "none"
      BY <1>2, <3>2, OwnTextsAreSentences DEF Warming
    <3>4. QED
      BY <2>0, <3>3 DEF Grows
  <2>4. QED
    BY <1>2, <2>1, <2>2, <2>3 DEF Warming, Text, Stored
<1>3. QED
  BY <1>1, <1>2

(* And while it does nothing at all. *)
LEMMA WarmingStays ==
    ASSUME PartInv, Grows, NEW d \in Callers, Stays(d), Warming(d),
           part[d] \in Nat, line[d] \in DOMAIN Lines
    PROVE  Warming(d)'
<1>1. Text(d) \in Texts /\ d[1] \in Procs
  BY OwnTextsAreSentences, CallersAreThreads DEF PartInv, Text
<1>2. CASE d[2] = 1
  <2>1. at'[d] \in Stored => mem'[d[1]][Text(d)] # "none"
    BY <1>1, <1>2 DEF Warming, Grows, Stays
  <2>2. QED
    BY <1>2, <2>1, WarmingMoves DEF Stays
<1>3. CASE d[2] # 1
  BY <1>3 DEF Warming, Stays
<1>4. QED
  BY <1>2, <1>3

(* What a calling one is at, too. *)
LEMMA CallingStays ==
    ASSUME NEW d \in Callers, Stays(d), Calling(d) PROVE Calling(d)'
BY DEF Calling, Stays, Text, OfDefaults

(* Unless calls begin or a process dies, only the acting caller matters.   *)
LEMMA WarmKept ==
    ASSUME CacheTypeOK, PartInv, WarmInv, Grows, NEW c \in Callers,
           \A d \in Callers \ {c} : Stays(d), loaded' = loaded,
           c[1] \notin loaded => Warming(c)',
           c[1] \in Warms \cap loaded => Calling(c)'
    PROVE  WarmInv'
<1>1. ASSUME NEW d \in Callers, d[1] \notin loaded' PROVE Warming(d)'
  <2>1. CASE d = c
    BY <1>1, <2>1
  <2>2. CASE d # c
    <3>1. Stays(d) /\ Warming(d)
      BY <1>1, <2>2 DEF WarmInv
    <3>2. part[d] \in Nat /\ line[d] \in DOMAIN Lines
      BY DEF CacheTypeOK
    <3>3. QED
      BY <3>1, <3>2, WarmingStays
  <2>3. QED
    BY <2>1, <2>2
<1>2. ASSUME NEW d \in Callers, d[1] \in Warms \cap loaded' PROVE Calling(d)'
  <2>1. CASE d = c
    BY <1>2, <2>1
  <2>2. CASE d # c
    <3>1. Stays(d) /\ Calling(d)
      BY <1>2, <2>2 DEF WarmInv
    <3>2. QED
      BY <3>1, CallingStays
  <2>3. QED
    BY <2>1, <2>2
<1>3. \A p \in Warms \cap loaded' : \A t \in Texts : OfDefaults(t) => mem'[p][t] # "none"
  BY CacheAssumption DEF WarmInv, Grows
<1>4. Procs \ Warms \subseteq loaded'
  BY DEF WarmInv
<1>5. QED
  BY <1>1, <1>2, <1>3, <1>4 DEF WarmInv, OfDefaults

(* The acting caller of a process that still warms is its first. *)
LEMMA OnlyTheFirstWarms ==
    ASSUME WarmInv, NEW c \in Callers, at[c] # "idle", c[1] \notin loaded
    PROVE  c[2] = 1 /\ Warming(c)
BY DEF WarmInv, Warming

(* A sentence is rendered, and its audio kept in memory. *)
LEMMA RenderStep ==
    ASSUME CacheTypeOK, PartInv, WarmInv, NEW c \in Callers,
           \/ MemGet(c) \/ ReadEntry(c) \/ OpenEntry(c) \/ WriteSome(c) \/ CloseEntry(c)
           \/ WriteFails(c) \/ Request(c)
    PROVE  WarmInv'
<1>a. /\ at \in [Callers -> {"idle", "memory", "disk", "fetch", "open",
                             "writing", "have", "gave up"}]
      /\ line \in [Callers -> DOMAIN Lines] /\ part \in [Callers -> Nat]
      /\ c[1] \in Procs /\ Text(c) \in Texts
  BY CallersAreThreads, TextsAreSentences DEF CacheTypeOK
<1>b. loaded' = loaded /\ at[c] # "idle"
  BY DEF MemGet, ReadEntry, OpenEntry, WriteSome, CloseEntry, WriteFails, Request
<1>c. \A d \in Callers \ {c} : Stays(d)
  BY OthersStay DEF StepOf, Synthesize
(* It suffices that the caller itself is as it should be. *)
<1>e. ASSUME Grows, line'[c] = line[c], part'[c] = part[c],
             at'[c] \in Stored => mem'[c[1]][Text(c)] # "none",
             c[1] \in Warms \cap loaded =>
                 at'[c] \in {"idle", "memory", "have"} \/ ~OfDefaults(Text(c))
      PROVE  WarmInv'
  <2>1. c[1] \notin loaded => Warming(c)'
    BY <1>a, <1>b, <1>e, OnlyTheFirstWarms, WarmingMoves
  <2>2. c[1] \in Warms \cap loaded => Calling(c)'
    BY <1>e DEF Calling, Text, OfDefaults
  <2>3. QED
    BY <1>b, <1>c, <1>e, <2>1, <2>2, WarmKept
<1>f. /\ mem \in [Procs -> [Texts -> {"none", "whole", "damaged"}]]
      /\ disk \in [Texts -> {"none", "empty", "whole", "damaged"}]
  BY DEF CacheTypeOK
<1>g. c[1] \in Warms \cap loaded => Calling(c)
  BY DEF WarmInv
<1>h. c[1] \notin loaded => (at[c] \in Stored => mem[c[1]][Text(c)] # "none")
  BY <1>b, OnlyTheFirstWarms DEF Warming
<1>i. ASSUME UNCHANGED mem PROVE Grows
  BY <1>i DEF Grows
<1>1. CASE MemGet(c)
  <2>1. /\ UNCHANGED <<mem, line, part>>
        /\ \/ mem[c[1]][Text(c)] = "none" /\ at'[c] = "disk"
           \/ mem[c[1]][Text(c)] # "none" /\ at'[c] = "have"
    BY <1>1, <1>a DEF MemGet, Moves
  <2>2. c[1] \in Warms \cap loaded =>
            (OfDefaults(Text(c)) => mem[c[1]][Text(c)] # "none")
    BY <1>a DEF WarmInv
  <2>3. QED
    BY <2>1, <2>2, <1>e, <1>i DEF Stored
<1>2. CASE ReadEntry(c)
  <2>1. c[1] \in Warms \cap loaded => ~OfDefaults(Text(c))
    BY <1>2, <1>g DEF Calling, ReadEntry
  <2>2. CASE UNCHANGED mem /\ Moves(c, "fetch")
    <3>1. at'[c] = "fetch" /\ UNCHANGED <<line, part>>
      BY <1>2, <1>a, <2>2 DEF Moves, ReadEntry
    <3>2. QED
      BY <2>1, <2>2, <3>1, <1>e, <1>i DEF Stored
  <2>3. CASE disk[Text(c)] \notin {"none", "empty"} /\ MemPut(c[1], Text(c), disk[Text(c)])
    <3>1. mem' = [mem EXCEPT ![c[1]][Text(c)] = disk[Text(c)]] /\ UNCHANGED <<line, part>>
      BY <1>2, <2>3 DEF MemPut, ReadEntry
    <3>2. Grows /\ mem'[c[1]][Text(c)] # "none"
      BY <1>a, <1>f, <2>3, <3>1 DEF Grows
    <3>3. QED
      BY <2>1, <3>1, <3>2, <1>e
  <2>4. QED
    BY <1>2, <2>2, <2>3 DEF ReadEntry, KeepsRead
<1>3. CASE Request(c)
  <2>1. c[1] \in Warms \cap loaded => ~OfDefaults(Text(c))
    BY <1>3, <1>g DEF Calling, Request
  <2>2. CASE MemPut(c[1], Text(c), "whole") /\ UNCHANGED <<part, line>>
    <3>1. mem' = [mem EXCEPT ![c[1]][Text(c)] = "whole"]
      BY <2>2 DEF MemPut
    <3>2. Grows /\ mem'[c[1]][Text(c)] # "none"
      BY <1>a, <1>f, <3>1 DEF Grows
    <3>3. QED
      BY <2>1, <2>2, <3>2, <1>e
  <2>3. CASE /\ at' = [at EXCEPT ![c] = IF c[1] \in loaded THEN "idle" ELSE "gave up"]
             /\ part' = [part EXCEPT ![c] = 1] /\ line' = [line EXCEPT ![c] = 1]
             /\ UNCHANGED mem
    <3>1. at'[c] = (IF c[1] \in loaded THEN "idle" ELSE "gave up")
          /\ line'[c] = 1 /\ part'[c] = 1
      BY <1>a, <2>3
    <3>2. 1 <= Defaults
      BY LinesHaveSentences
    <3>3. c[1] \notin loaded => Warming(c)'
      <4>0. 1..(1 - 1) = {}
        OBVIOUS
      <4>1. \A i \in 1..(line'[c] - 1) : FALSE
        BY <3>1, <4>0, Zenon
      <4>2. \A k \in 1..(part'[c] - 1) : FALSE
        BY <3>1, <4>0, Zenon
      <4>3. line'[c] <= Defaults
        BY <3>1, <3>2
      <4>4. c[1] \notin loaded => at'[c] \notin Stored
        BY <3>1 DEF Stored
      <4>5. c[1] \notin loaded => c[2] = 1
        BY <1>b, OnlyTheFirstWarms
      <4>6. QED
        BY <4>1, <4>2, <4>3, <4>4, <4>5 DEF Warming, Stored
    <3>4. c[1] \in Warms \cap loaded => Calling(c)'
      BY <3>1 DEF Calling
    <3>5. QED
      BY <1>b, <1>c, <1>i, <2>3, <3>3, <3>4, WarmKept
  <2>4. QED
    BY <1>3, <2>2, <2>3 DEF Request, Fetched, Moves
<1>4. CASE OpenEntry(c) \/ WriteSome(c) \/ CloseEntry(c) \/ WriteFails(c)
  <2>1. /\ UNCHANGED <<mem, line, part>> /\ at[c] \in {"open", "writing"}
        /\ at'[c] \in {"writing", "have"}
    BY <1>4, <1>a DEF OpenEntry, WriteSome, CloseEntry, WriteFails, Moves, threadVars
  <2>2. c[1] \in Warms \cap loaded => ~OfDefaults(Text(c))
    BY <1>g, <2>1 DEF Calling
  <2>3. at[c] \in Stored
    BY <2>1 DEF Stored
  <2>4. c[1] \notin loaded => Warming(c)'
    BY <1>a, <1>b, <1>h, <1>i, <2>1, <2>3, OnlyTheFirstWarms, WarmingMoves
  <2>5. c[1] \in Warms \cap loaded => Calling(c)'
    BY <2>1, <2>2 DEF Calling, Text, OfDefaults
  <2>6. QED
    BY <1>b, <1>c, <1>i, <2>1, <2>4, <2>5, WarmKept
<1>5. QED
  BY <1>1, <1>2, <1>3, <1>4

(* A caller takes up a line. *)
LEMMA TakeUpStep ==
    ASSUME CacheTypeOK, PartInv, WarmInv, NEW c \in Callers,
           (\E l \in DOMAIN Lines : CallNeeds(c, l)) \/ (c[2] = 1 /\ WarmNext(c[1]))
    PROVE  WarmInv'
<1>a. /\ at \in [Callers -> {"idle", "memory", "disk", "fetch", "open",
                             "writing", "have", "gave up"}]
      /\ line \in [Callers -> DOMAIN Lines] /\ part \in [Callers -> Nat]
      /\ c = <<c[1], c[2]>>
  BY CallersAreThreads DEF CacheTypeOK
<1>b. \A d \in Callers \ {c} : Stays(d)
  BY OthersStay DEF StepOf
<1>c. /\ UNCHANGED <<mem, loaded>> /\ at'[c] = "memory"
      /\ c[1] \notin loaded => UNCHANGED <<line, part>> /\ c[2] = 1
  BY <1>a DEF CallNeeds, WarmNext, Moves
<1>1. Grows
  BY <1>c DEF Grows
<1>2. c[1] \notin loaded => Warming(c)'
  <2>1. c[1] \notin loaded => Warming(c)
    BY DEF WarmInv
  <2>2. at'[c] \notin Stored
    BY <1>c DEF Stored
  <2>3. QED
    BY <1>a, <1>c, <1>1, <2>1, <2>2, WarmingMoves
<1>3. Calling(c)'
  BY <1>c DEF Calling
<1>4. QED
  BY <1>b, <1>c, <1>1, <1>2, <1>3, WarmKept

(* A caller goes on to the next sentence, or the next line. *)
LEMMA NextPartStep ==
    ASSUME CacheTypeOK, PartInv, WarmInv, NEW c \in Callers, NextPart(c)
    PROVE  WarmInv'
<1>a. /\ at \in [Callers -> {"idle", "memory", "disk", "fetch", "open",
                             "writing", "have", "gave up"}]
      /\ line \in [Callers -> DOMAIN Lines] /\ part \in [Callers -> Nat]
      /\ line[c] \in DOMAIN Lines /\ part[c] \in DOMAIN Lines[line[c]]
      /\ c = <<c[1], c[2]>> /\ c[1] \in Procs
  BY CallersAreThreads DEF CacheTypeOK, PartInv
<1>b. \A d \in Callers \ {c} : Stays(d)
  BY OthersStay DEF StepOf, Synthesize
<1>c. UNCHANGED mem /\ at[c] = "have" /\ Grows
  BY DEF NextPart, Grows
<1>d. /\ DOMAIN Lines[line[c]] = 1..Len(Lines[line[c]]) /\ Len(Lines[line[c]]) \in Nat
      /\ line[c] \in Nat \ {0} /\ part[c] \in Nat /\ Defaults \in Nat
  <2>1. line[c] \in 1..Len(Lines) /\ Len(Lines) \in Nat /\ Defaults \in Nat
    BY <1>a, LinesHaveSentences
  <2>2. part[c] \in Nat
    BY <1>a
  <2>3. DOMAIN Lines[line[c]] = 1..Len(Lines[line[c]]) /\ Len(Lines[line[c]]) \in Nat
    BY <1>a, LinesHaveSentences
  <2>4. QED
    BY <2>1, <2>2, <2>3
(* What a warming caller has behind it. *)
<1>e. ASSUME c[1] \notin loaded
      PROVE  /\ c[2] = 1 /\ line[c] <= Defaults
             /\ \A i \in 1..(line[c] - 1) : \A k \in DOMAIN Lines[i] :
                    mem[c[1]][Lines[i][k]] # "none"
             /\ \A k \in 1..part[c] : mem[c[1]][Lines[line[c]][k]] # "none"
  <2>1. c[2] = 1 /\ Warming(c)
    BY <1>c, <1>e, OnlyTheFirstWarms
  <2>2. mem[c[1]][Lines[line[c]][part[c]]] # "none"
    BY <1>c, <2>1 DEF Warming, Stored, Text
  <2>3. ASSUME NEW k \in 1..part[c] PROVE mem[c[1]][Lines[line[c]][k]] # "none"
    <3>1. k = part[c] \/ k \in 1..(part[c] - 1)
      BY <1>d
    <3>2. \A j \in 1..(part[c] - 1) : mem[c[1]][Lines[line[c]][j]] # "none"
      BY <2>1 DEF Warming
    <3>3. QED
      BY <2>2, <3>1, <3>2
  <2>4. QED
    BY <2>1, <2>3 DEF Warming
<1>f. Stored = {"have", "open", "writing"}
  BY DEF Stored
<1>1. CASE part[c] < Len(Lines[line[c]]) /\ Moves(c, "memory")
           /\ part' = [part EXCEPT ![c] = @ + 1] /\ UNCHANGED <<line, loaded>>
  <2>1. at'[c] = "memory" /\ part'[c] = part[c] + 1 /\ line'[c] = line[c]
    BY <1>1, <1>a DEF Moves
  <2>2. c[1] \notin loaded => Warming(c)'
    <3>1. 1..(part'[c] - 1) = 1..part[c]
      BY <1>d, <2>1
    <3>2. at'[c] \notin Stored
      BY <1>f, <2>1
    <3>3. QED
      BY <1>c, <1>e, <2>1, <3>1, <3>2, Zenon DEF Warming, Stored
  <2>3. Calling(c)'
    BY <2>1 DEF Calling
  <2>4. QED
    BY <1>1, <1>b, <1>c, <2>2, <2>3, WarmKept
<1>2. CASE part[c] = Len(Lines[line[c]]) /\ Moves(c, "idle") /\ UNCHANGED loaded
           /\ part' = [part EXCEPT ![c] = 1]
           /\ (c[1] \notin loaded =>
                  ~WarmsLast(c) /\ line' = [line EXCEPT ![c] = @ + 1])
  <2>1. at'[c] = "idle" /\ part'[c] = 1
    BY <1>2, <1>a DEF Moves
  <2>2. ASSUME c[1] \notin loaded PROVE Warming(c)'
    <3>1. line'[c] = line[c] + 1 /\ line[c] < Defaults
      <4>1. line' = [line EXCEPT ![c] = @ + 1] /\ ~(line[c] >= Defaults)
        BY <1>2, <2>2 DEF WarmsLast
      <4>2. line'[c] = line[c] + 1
        BY <4>1, <1>a
      <4>3. line[c] < Defaults
        BY <4>1, <1>d
      <4>4. QED
        BY <4>2, <4>3
    <3>2. 1..(1 - 1) = {} /\ 1..(line'[c] - 1) = 1..(line[c] - 1) \cup {line[c]}
      <4>1. \A n \in Nat \ {0} : 1..(n + 1 - 1) = 1..(n - 1) \cup {n}
        OBVIOUS
      <4>2. QED
        BY <4>1, <1>d, <3>1
    <3>3. \A k \in 1..(part'[c] - 1) : FALSE
      BY <2>1, <3>2, Zenon
    <3>4. \A k \in DOMAIN Lines[line[c]] : mem[c[1]][Lines[line[c]][k]] # "none"
      BY <1>2, <1>d, <1>e, <2>2
    <3>5. \A i \in 1..(line'[c] - 1) : \A k \in DOMAIN Lines[i] :
              mem'[c[1]][Lines[i][k]] # "none"
      BY <1>c, <1>e, <2>2, <3>2, <3>4, Zenon
    <3>6. line'[c] <= Defaults
      BY <1>d, <3>1
    <3>7. at'[c] \notin Stored
      BY <1>f, <2>1
    <3>8. QED
      BY <1>e, <2>2, <3>3, <3>5, <3>6, <3>7, Zenon DEF Warming, Stored
  <2>3. Calling(c)'
    BY <2>1 DEF Calling
  <2>4. QED
    BY <1>2, <1>b, <1>c, <2>2, <2>3, WarmKept
<1>3. CASE part[c] = Len(Lines[line[c]]) /\ Moves(c, "idle") /\ c[1] \notin loaded
           /\ WarmsLast(c) /\ loaded' = loaded \cup {c[1]}
  <2>1. at'[c] = "idle"
    BY <1>3, <1>a DEF Moves
  <2>2. line[c] = Defaults
    BY <1>3, <1>d, <1>e DEF WarmsLast
  <2>3. ASSUME NEW t \in Texts, OfDefaults(t) PROVE mem[c[1]][t] # "none"
    <3>1. PICK i \in 1..Defaults : \E k \in DOMAIN Lines[i] : Lines[i][k] = t
      BY <2>3 DEF OfDefaults
    <3>2. CASE i = line[c]
      BY <1>3, <1>d, <1>e, <3>1, <3>2
    <3>3. CASE i # line[c]
      <4>1. i \in 1..(line[c] - 1)
        BY <1>d, <2>2, <3>3
      <4>2. QED
        BY <1>3, <1>e, <3>1, <4>1
    <3>4. QED
      BY <3>2, <3>3
  <2>4. ASSUME NEW d \in Callers, d[1] \notin loaded' PROVE Warming(d)'
    <3>1. d # c /\ d[1] \notin loaded
      BY <1>3, <2>4
    <3>2. Stays(d) /\ Warming(d) /\ part[d] \in Nat /\ line[d] \in DOMAIN Lines
      BY <1>a, <1>b, <3>1 DEF WarmInv
    <3>3. QED
      BY <1>c, <3>2, WarmingStays
  <2>5. ASSUME NEW d \in Callers, d[1] \in Warms \cap loaded' PROVE Calling(d)'
    <3>1. CASE d = c
      BY <2>1, <3>1 DEF Calling
    <3>2. CASE d # c /\ d[1] = c[1]
      <4>1. d[2] # 1
        BY <1>3, <1>e, <3>2, CallersAreThreads
      <4>2. at[d] = "idle"
        BY <1>3, <3>2, <4>1 DEF WarmInv, Warming
      <4>3. QED
        BY <1>b, <3>2, <4>2 DEF Calling, Stays
    <3>3. CASE d[1] # c[1]
      <4>1. d # c /\ d[1] \in Warms \cap loaded
        BY <1>3, <2>5, <3>3
      <4>2. QED
        BY <1>b, <4>1, CallingStays DEF WarmInv
    <3>4. QED
      BY <3>1, <3>2, <3>3
  <2>6. \A p \in Warms \cap loaded' : \A t \in Texts : OfDefaults(t) => mem'[p][t] # "none"
    BY <1>3, <1>c, <2>3 DEF WarmInv
  <2>7. Procs \ Warms \subseteq loaded'
    BY <1>3 DEF WarmInv
  <2>8. QED
    BY <2>4, <2>5, <2>6, <2>7 DEF WarmInv, OfDefaults
<1>4. QED
  BY <1>1, <1>2, <1>3 DEF NextPart

(* A process that dies forgets what it had, and warms again if it did.     *)
LEMMA DeathStep ==
    ASSUME CacheTypeOK, WarmInv, NEW p \in Procs, ProcessDies(p)
    PROVE  WarmInv'
<1>a. /\ mem \in [Procs -> [Texts -> {"none", "whole", "damaged"}]]
      /\ loaded' = loaded \ (Warms \cap {p})
      /\ \A q \in Procs : q # p => mem'[q] = mem[q]
  BY DEF CacheTypeOK, ProcessDies
<1>b. \A d \in Callers : d[1] # p => Stays(d)
  BY DEF ProcessDies, Stays
<1>c. \A d \in Callers : d[1] = p => at'[d] = "idle" /\ line'[d] = 1 /\ part'[d] = 1
  BY DEF ProcessDies
<1>1. Procs \ Warms \subseteq loaded'
  BY <1>a DEF WarmInv
<1>2. ASSUME NEW d \in Callers, d[1] \notin loaded' PROVE Warming(d)'
  <2>1. CASE d[1] = p
    <3>1. at'[d] = "idle" /\ line'[d] = 1 /\ part'[d] = 1
      BY <1>c, <2>1
    <3>2. 1..(1 - 1) = {} /\ 1 <= Defaults
      BY LinesHaveSentences
    <3>3. (\A i \in 1..(line'[d] - 1) : FALSE) /\ (\A k \in 1..(part'[d] - 1) : FALSE)
      BY <3>1, <3>2, Zenon
    <3>4. line'[d] <= Defaults
      BY <3>1, <3>2
    <3>5. at'[d] \notin Stored
      BY <3>1 DEF Stored
    <3>6. QED
      BY <3>1, <3>3, <3>4, <3>5, Zenon DEF Warming, Stored
  <2>2. CASE d[1] # p
    <3>1. d[1] \notin loaded /\ d[1] \in Procs
      BY <1>2, <1>a, <2>2, CallersAreThreads
    <3>2. Stays(d) /\ Warming(d) /\ mem'[d[1]] = mem[d[1]]
      BY <1>a, <1>b, <2>2, <3>1 DEF WarmInv
    <3>3. QED
      BY <3>2 DEF Warming, Stays, Text
  <2>3. QED
    BY <2>1, <2>2
<1>3. ASSUME NEW d \in Callers, d[1] \in Warms \cap loaded' PROVE Calling(d)'
  <2>1. d[1] # p /\ d[1] \in Warms \cap loaded
    BY <1>3, <1>a
  <2>2. QED
    BY <1>b, <2>1, CallingStays DEF WarmInv
<1>4. \A q \in Warms \cap loaded' : \A t \in Texts : OfDefaults(t) => mem'[q][t] # "none"
  BY <1>a, CacheAssumption DEF WarmInv
<1>5. QED
  BY <1>1, <1>2, <1>3, <1>4 DEF WarmInv, OfDefaults

(* No step lets a warmed process go cold. *)
LEMMA WarmStep ==
    ASSUME CacheTypeOK, PartInv, WarmInv, [CacheNext]_cacheVars
    PROVE  WarmInv'
<1>1. ASSUME NEW c \in Callers, StepOf(c) PROVE WarmInv'
  BY <1>1, RenderStep, TakeUpStep, NextPartStep DEF StepOf, Synthesize
<1>2. CASE UNCHANGED cacheVars
  BY <1>2 DEF cacheVars, threadVars, WarmInv, Warming, Calling, Text, Stored, OfDefaults
<1>3. QED
  BY <1>1, <1>2, StepsAreCallers, DeathStep

-----------------------------------------------------------------------------
(* Every step keeps the invariant. *)
LEMMA InvNext == IInv /\ [CacheNext]_cacheVars => IInv'
BY TypeStep, PartStep, DamageStep, WarmStep DEF IInv

(* Everything below rests on this invariant of the cache. *)
THEOREM CacheInvariant == CacheSpec => []IInv
BY InvInit, InvNext, PTL DEF CacheSpec

(* The variables of the cache keep their types: the counters keep their    *)
(* bounds, and an entry is absent, empty, whole or damaged.                *)
THEOREM CacheTypes == CacheSpec => []CacheTypeOK
BY CacheInvariant, PTL DEF IInv

(* However many processes and callers share the cache directory, an entry  *)
(* that nobody is writing is damaged only where a writer stopped half way  *)
(* (it died, or its write failed) or two wrote at once (os.WriteFile in    *)
(* Synthesize).                                                            *)
THEOREM DamageHasAWriter == CacheSpec => []OnlyWritersDamageAnEntry
BY CacheInvariant, PTL DEF IInv, DamageInv

(* Whatever sentences lines share, and however calls race and processes    *)
(* die, a process that ran warmCache never asks disk or provider for a     *)
(* sentence of a node's own line.                                          *)
THEOREM WarmingIsEnough == CacheSpec => []WarmedLinesStayWarm
<1>1. ASSUME IInv PROVE WarmedLinesStayWarm
  BY <1>1 DEF IInv, WarmInv, Calling, OfDefaults, WarmedLinesStayWarm
<1>2. QED
  BY <1>1, CacheInvariant, PTL
=============================================================================

---------------------------- MODULE SpeechCache -----------------------------
(***************************************************************************)
(* The caller's voice: tts.Client.Synthesize over a cache in memory, one   *)
(* per process, and a cache directory that processes share.  An entry of   *)
(* the directory is written in place, so between the truncation and the    *)
(* last byte it is there for others to read.  A process that runs a load   *)
(* warms its memory first (warmCache); a fleet worker does not.  Warming   *)
(* renders what each node says, not what its branches say.                 *)
(***************************************************************************)
EXTENDS Naturals, Sequences, FiniteSets

CONSTANTS
    Procs,         \* processes that share the cache directory
    Warms,         \* those that run warmCache before their calls
    Threads,       \* how many callers each process has
    Texts,         \* sentences
    Lines,         \* the scenario: a sequence of lines, each of sentences
    Defaults,      \* how many of them are nodes' own, before their branches'
    MaxCrashes,    \* bound on crashes
    MaxFailures    \* bound on failed requests and failed writes

Callers == UNION {{p} \X (1..Threads[p]) : p \in Procs}

ASSUME CacheAssumption ==
    /\ Warms \subseteq Procs /\ Threads \in [Procs -> Nat \ {0}]
    /\ Lines \in Seq(Seq(Texts) \ {<<>>}) /\ Lines # <<>>
    /\ Defaults \in DOMAIN Lines
    /\ {MaxCrashes, MaxFailures} \subseteq Nat

VARIABLES
    mem,           \* memCache: what each process holds for a sentence
    disk,          \* what the cache directory holds
    at,            \* where each caller is in Synthesize
    line,          \* the line it renders
    part,          \* the sentence of the line it is at
    audio,         \* the bytes it has in hand for that sentence
    loaded,        \* processes whose calls have begun
    spoiled,       \* sentences whose file was left half written, or by two writers
    crashes, failures

threadVars == <<at, line, part, audio>>
cacheVars == <<mem, disk, threadVars, loaded, spoiled, crashes, failures>>

Text(c) == Lines[line[c]][part[c]]
Writing(t) == {c \in Callers : at[c] = "writing" /\ Text(c) = t}

NothingCached ==
    /\ mem = [p \in Procs |-> [t \in Texts |-> "none"]]
    /\ at = [c \in Callers |-> "idle"]
    /\ line = [c \in Callers |-> 1] /\ part = [c \in Callers |-> 1]
    /\ audio = [c \in Callers |-> "none"]
    /\ loaded = Procs \ Warms
    /\ spoiled = {} /\ crashes = 0 /\ failures = 0

(* Earlier runs left whole entries behind, or none. *)
CacheInit == NothingCached /\ disk \in [Texts -> {"none", "whole"}]

Moves(c, stage) == at' = [at EXCEPT ![c] = stage]
MemPut(p, t, pcm) == mem' = [mem EXCEPT ![p][t] = pcm]

-----------------------------------------------------------------------------
(* warmCache renders every node's own line in order, alone; then the calls *)
(* begin, each rendering any line.                                         *)
WarmNext(p) ==
    /\ p \notin loaded
    /\ at[<<p, 1>>] = "idle"
    /\ Moves(<<p, 1>>, "memory")
    /\ UNCHANGED <<mem, disk, line, part, audio, loaded, spoiled, crashes, failures>>

CallNeeds(c, l) ==
    /\ c[1] \in loaded
    /\ at[c] = "idle"
    /\ Moves(c, "memory")
    /\ line' = [line EXCEPT ![c] = l]
    /\ part' = [part EXCEPT ![c] = 1]
    /\ UNCHANGED <<mem, disk, audio, loaded, spoiled, crashes, failures>>

(* Slip: warming goes on after the last line. *)
WarmsPastLast(c) == line[c] > Len(Lines)

(* The loop of warmCache is over. *)
WarmsLast(c) == line[c] >= Defaults

(* worker.Synthesize goes on to the line's next sentence.  At the line's   *)
(* end a warming process takes the next line or starts its calls.          *)
NextPart(c) ==
    LET p == c[1] IN
    /\ at[c] = "have"
    /\ \/ /\ part[c] < Len(Lines[line[c]])
          /\ Moves(c, "memory")
          /\ part' = [part EXCEPT ![c] = @ + 1]
          /\ UNCHANGED <<line, loaded>>
       \/ /\ part[c] = Len(Lines[line[c]])
          /\ Moves(c, "idle")
          /\ part' = [part EXCEPT ![c] = 1]
          /\ IF p \in loaded THEN line' = [line EXCEPT ![c] = 1] /\ UNCHANGED loaded
             ELSE IF WarmsLast(c) THEN loaded' = loaded \cup {p} /\ line' = [line EXCEPT ![c] = 1]
             ELSE line' = [line EXCEPT ![c] = @ + 1] /\ UNCHANGED loaded
    /\ audio' = [audio EXCEPT ![c] = "none"]
    /\ UNCHANGED <<mem, disk, spoiled, crashes, failures>>

-----------------------------------------------------------------------------
(* Synthesize. *)

MemGet(c) ==
    /\ at[c] = "memory"
    /\ LET held == mem[c[1]][Text(c)] IN
       /\ audio' = [audio EXCEPT ![c] = held]
       /\ Moves(c, IF held = "none" THEN "disk" ELSE "have")
    /\ UNCHANGED <<mem, disk, line, part, loaded, spoiled, crashes, failures>>

(* Slip: what was read from disk is not kept in memory. *)
KeepsNothing(p, t, pcm) == UNCHANGED mem

KeepsRead(p, t, pcm) == MemPut(p, t, pcm)

(* An absent or empty file is a miss; anything else is taken as it is.     *)
(* Putting it in memory is a second step of the code, which nobody can     *)
(* tell from this one.                                                     *)
ReadEntry(c) ==
    /\ at[c] = "disk"
    /\ LET pcm == disk[Text(c)] IN
       IF pcm \in {"none", "empty"}
       THEN Moves(c, "fetch") /\ UNCHANGED <<mem, audio>>
       ELSE /\ Moves(c, "have")
            /\ audio' = [audio EXCEPT ![c] = pcm]
            /\ KeepsRead(c[1], Text(c), pcm)
    /\ UNCHANGED <<disk, line, part, loaded, spoiled, crashes, failures>>

(* Slip: an error while the body is read is ignored. *)
TakesShortBody == {"whole", "damaged"}

(* A body that could not be read to its end is an error. *)
Fetched == {"whole"}

(* The answer goes to memory and then to disk.  A failed request fails the *)
(* call, or the warming and with it the run.                               *)
Request(c) ==
    /\ at[c] = "fetch"
    /\ \/ \E pcm \in Fetched :
            /\ audio' = [audio EXCEPT ![c] = pcm]
            /\ MemPut(c[1], Text(c), pcm)
            /\ Moves(c, "open") /\ UNCHANGED <<failures, part, line>>
       \/ /\ failures < MaxFailures /\ failures' = failures + 1
          /\ Moves(c, IF c[1] \in loaded THEN "idle" ELSE "gave up")
          /\ part' = [part EXCEPT ![c] = 1]
          /\ line' = [line EXCEPT ![c] = 1]
          /\ UNCHANGED <<mem, audio>>
    /\ UNCHANGED <<disk, loaded, spoiled, crashes>>

(* os.WriteFile truncates the file ... *)
OpenEntry(c) ==
    /\ at[c] = "open"
    /\ disk' = [disk EXCEPT ![Text(c)] = "empty"]
    /\ spoiled' = IF Writing(Text(c)) = {} THEN spoiled ELSE spoiled \cup {Text(c)}
    /\ Moves(c, "writing")
    /\ UNCHANGED <<mem, line, part, audio, loaded, crashes, failures>>

(* ... writes it piece by piece ... *)
WriteSome(c) ==
    /\ at[c] = "writing"
    /\ disk[Text(c)] = "empty"
    /\ disk' = [disk EXCEPT ![Text(c)] = "damaged"]
    /\ UNCHANGED <<mem, threadVars, loaded, spoiled, crashes, failures>>

(* ... and is done.  Two answers to one text may differ, so what a second  *)
(* writer of the file leaves is whole only by chance.                      *)
CloseEntry(c) ==
    /\ at[c] = "writing"
    /\ \E left \in (IF Text(c) \in spoiled THEN {"whole", "damaged"} ELSE {audio[c]}) :
         disk' = [disk EXCEPT ![Text(c)] = left]
    /\ Moves(c, "have")
    /\ UNCHANGED <<mem, line, part, audio, loaded, spoiled, crashes, failures>>

(* The directory cannot be made, the file not be opened, or the disk is    *)
(* full before the last byte.  The error is ignored and what was written   *)
(* stays: the caller has its speech.                                       *)
WriteFails(c) ==
    /\ failures < MaxFailures /\ failures' = failures + 1
    /\ at[c] \in {"open", "writing"}
    /\ spoiled' = spoiled \cup {t \in {Text(c)} : at[c] = "writing" /\ disk[t] = "damaged"}
    /\ Moves(c, "have")
    /\ UNCHANGED <<mem, disk, line, part, audio, loaded, crashes>>

(* The process dies; its memory is gone, what it wrote is not. *)
ProcessDies(p) ==
    /\ crashes < MaxCrashes /\ crashes' = crashes + 1
    /\ mem' = [mem EXCEPT ![p] = [t \in Texts |-> "none"]]
    /\ at' = [c \in Callers |-> IF c[1] = p THEN "idle" ELSE at[c]]
    /\ line' = [c \in Callers |-> IF c[1] = p THEN 1 ELSE line[c]]
    /\ part' = [c \in Callers |-> IF c[1] = p THEN 1 ELSE part[c]]
    /\ audio' = [c \in Callers |-> IF c[1] = p THEN "none" ELSE audio[c]]
    /\ loaded' = loaded \ (Warms \cap {p})
    /\ spoiled' = spoiled \cup {t \in Texts : \E c \in Writing(t) : c[1] = p}
    /\ UNCHANGED <<disk, failures>>

Synthesize(c) ==
    \/ MemGet(c) \/ ReadEntry(c) \/ Request(c) \/ OpenEntry(c)
    \/ WriteSome(c) \/ CloseEntry(c) \/ WriteFails(c) \/ NextPart(c)

CacheNext ==
    \/ \E p \in Procs : WarmNext(p) \/ ProcessDies(p)
    \/ \E c \in Callers : Synthesize(c) \/ \E l \in DOMAIN Lines : CallNeeds(c, l)

CacheSpec == CacheInit /\ [][CacheNext]_cacheVars

-----------------------------------------------------------------------------
CacheTypeOK ==
    /\ mem \in [Procs -> [Texts -> {"none", "whole", "damaged"}]]
    /\ disk \in [Texts -> {"none", "empty", "whole", "damaged"}]
    /\ at \in [Callers -> {"idle", "memory", "disk", "fetch", "open", "writing", "have", "gave up"}]
    /\ line \in [Callers -> DOMAIN Lines] /\ part \in [Callers -> Nat]
    /\ audio \in [Callers -> {"none", "whole", "damaged"}]
    /\ loaded \subseteq Procs /\ spoiled \subseteq Texts
    /\ crashes \in 0..MaxCrashes /\ failures \in 0..MaxFailures

(* A call of a warmed run never asks the provider nor the disk for speech  *)
(* that a node's own line contains, whatever sentences lines share and     *)
(* however callers race: no call pays for a synthesis that a later one     *)
(* gets for nothing.  What only a branch says is rendered by the calls.    *)
WarmedLinesStayWarm ==
    \A c \in Callers :
        c[1] \in Warms \cap loaded /\ at[c] \notin {"idle", "memory", "have"}
            => \A i \in 1..Defaults : \A k \in DOMAIN Lines[i] : Lines[i][k] # Text(c)

(* An entry is damaged only while it is being written, or where a writer   *)
(* stopped half way (it died, or its write failed, which Synthesize        *)
(* ignores) or two wrote at once; a failed answer of the provider is not   *)
(* stored.                                                                 *)
OnlyWritersDamageAnEntry ==
    \A t \in Texts : disk[t] = "damaged" /\ Writing(t) = {} => t \in spoiled
=============================================================================

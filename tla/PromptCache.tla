----------------------------- MODULE PromptCache -----------------------------
(***************************************************************************)
(* The prompt cache of the engine server and its disk mirror               *)
(* (engine/tools/server/server-task.cpp, server_prompt_cache).             *)
(*                                                                         *)
(* The main thread saves the slot's state to the RAM list when another     *)
(* prompt takes the slot, restores the best match from RAM or disk, and    *)
(* hands every admitted state to a detached writer.  A writer fills        *)
(* path.tmp in three parts (header, KV bytes, tokens) and renames it.  It  *)
(* keeps writing to the file it opened even after another writer of the    *)
(* same name has renamed that file or replaced it.  The process may crash  *)
(* at any point and come back with another model, window or draft.         *)
(***************************************************************************)
EXTENDS Integers, FiniteSets, SequencesExt

CONSTANTS Prompts,      \* nonempty token sequences of the conversations
          Models,       \* model_key
          Windows,      \* n_ctx of a start or a resize
          Configs,      \* model, window, draft and VITRIOL_CACHE_KEEP of a start
          RamLimit,     \* limit_size; the size of a state is its token count
          TrimX,        \* VITRIOL_KV_DISK_TRIM_X, the mirror's size in RAM pools
          Overlap,      \* two spills of one name may be in flight together
          MayFail,      \* allocations, draft restores and writes may fail
          MaxWriters, MaxStarts,  \* bounds
          Bad, None

ASSUME PromptAssumption ==
    /\ \A p \in Prompts : p \in Seq(Nat) /\ Len(p) > 0
    /\ Windows \subseteq Nat
    /\ Configs \subseteq [model : Models, window : Windows, draft : BOOLEAN, keep : BOOLEAN]
    /\ RamLimit \in Nat \ {0} /\ TrimX \in Nat \ {0}
    /\ {Overlap, MayFail} \subseteq BOOLEAN
    /\ MaxWriters \in Nat \ {0} /\ MaxStarts \in Nat \ {0}

VARIABLES
    up, starts,      \* the process: running, aborted or down; starts so far
    model, window, draft, keep,  \* identity, n_ctx, ctx_dft present, cache keep
    mpc, want,       \* main thread: idle, load or run, and the prompt it serves
    limit,           \* limit_size, lowered when an allocation fails
    states,          \* the RAM list, oldest first
    slot,            \* prompt.tokens and what the KV memory really holds
    disk,            \* published files, oldest mtime first: name and contents
    tmp,             \* the contents of path.tmp, by name, or None
    writers          \* detached writer threads, and the file each one writes to

run   == <<up, starts, model, window, draft, keep>>
files == <<disk, tmp, writers>>
vars  == <<run, mpc, want, limit, states, slot, files>>

Part == 1 .. 3        \* header, KV bytes, tokens
Kv == [of : Prompts, model : Models] \cup {Bad}
Content == [toks : Prompts, kv : Kv, model : Models, drft : BOOLEAN]
Entry == [toks : Prompts, kv : Kv \cup {None}, drft : BOOLEAN, hit : Nat]
Empty == [toks |-> <<>>, kv |-> None]
Blank == [i \in Part |-> None]   \* a file of which nothing is written

\* get_common_prefix.
lcp(a, b) == Cardinality({n \in DOMAIN a : n \in DOMAIN b /\ SubSeq(a, 1, n) = SubSeq(b, 1, n)})
Contained(p, list) == \E i \in DOMAIN list : lcp(list[i].toks, p) = Len(p)
StateSize(e) == IF e.kv = None THEN 0 ELSE Len(e.toks)
Total(list) == Cardinality(UNION {{i} \X (1 .. StateSize(list[i])) : i \in DOMAIN list})

\* The members of a list at the positions of D, in their order.
Sublist(list, D) ==
    LET Rank(i) == Cardinality({j \in D : j <= i})
    IN  [n \in 1 .. Cardinality(D) |-> list[CHOOSE i \in D : Rank(i) = n]]
Without(list, i) == Sublist(list, DOMAIN list \ {i})
Behind(list, n) == Sublist(list, {i \in DOMAIN list : i > n})

\* The file name hashes the count, the head and the tail of the tokens; 64
\* tokens at each end are abstracted to one.
disk_name(p, m) == <<m, Len(p), p[1], p[Len(p)]>>
Names == {disk_name(p, m) : p \in Prompts, m \in Models}

-----------------------------------------------------------------------------
(* RAM list *)

\* The list after n evictions, each of the least recently hit entry, the oldest
\* among equals.
Evicted(list, n) ==
    LET Before(i) == {j \in DOMAIN list : \/ list[j].hit < list[i].hit
                                          \/ list[j].hit = list[i].hit /\ j < i}
    IN  Sublist(list, {i \in DOMAIN list : Cardinality(Before(i)) >= n})

\* Entries leave until need more bytes fit or none is left.
MakeRoom(list, need, lim) ==
    Evicted(list, Min({n \in 0 .. Len(list) :
                          n = Len(list) \/ Total(Evicted(list, n)) + need <= lim}))

\* server_prompt_cache::update.
update(list, lim) == MakeRoom(list, 0, lim)

\* alloc: what the new prompt contains leaves and room is made, then the state is
\* added.
Cleared(p) ==
    MakeRoom(Sublist(states, {i \in DOMAIN states : lcp(states[i].toks, p) # Len(states[i].toks)}),
             Len(p), limit)
alloc(p, k, d) == Append(Cleared(p), [toks |-> p, kv |-> k, drft |-> d, hit |-> 0])

\* t_last_hit of entry i becomes the latest; stamps are renumbered.
Hit(list, i) ==
    [j \in DOMAIN list |->
        [list[j] EXCEPT !.hit =
            LET older == {k \in DOMAIN list \ {i} : list[k].hit > 0 /\ (j = i \/ list[k].hit <= @)}
            IN  IF j = i THEN Cardinality(older) + 1 ELSE IF @ = 0 THEN 0 ELSE Cardinality(older)]]

-----------------------------------------------------------------------------
(* Disk mirror *)

FileSize(f) == IF f.c = Blank THEN 0 ELSE Len(f.c[CHOOSE i \in Part : f.c[i] # None].toks)
DiskTotal(d) == Cardinality(UNION {{k} \X (1 .. FileSize(d[k])) : k \in DOMAIN d})

\* The mirror follows the RAM limit of the moment.
disk_trim_limit == TrimX * limit

\* disk_trim: the oldest files leave until the incoming one fits.
disk_trim(d, incoming) ==
    IF incoming > disk_trim_limit THEN d
    ELSE Behind(d, Min({n \in 0 .. Len(d) :
                  n = Len(d) \/ DiskTotal(Behind(d, n)) + incoming <= disk_trim_limit}))

\* disk_read: only magic and lengths are checked, so the KV bytes may be a hole.
Readable(f) == f.c[1] # None /\ f.c[3] # None
disk_read(f) ==
    [toks |-> f.c[3].toks, kv |-> IF f.c[2] = None THEN Bad ELSE f.c[2].kv,
     drft |-> f.c[1].drft, hit |-> 0]

\* Mutant: the identity block is not compared.
Accepted_AnyModel(f) == Readable(f)

\* identity_verdict: the model must match (KV types and streams are fixed here).
Accepted(f) == Readable(f) /\ f.c[1].model = model

\* Mutant: a file whose prompt RAM holds already is eligible too.
Eligible_InRamToo(f, new) ==
    LET l == lcp(f.c[3].toks, new)
    IN  Accepted(f) /\ l > 0 /\ 4 * l >= Len(f.c[3].toks)

\* The gate of a file: accepted, not in RAM already, a quarter of it reused.
Eligible(f, new) ==
    /\ Accepted(f)
    /\ ~ Contained(f.c[3].toks, states)
    /\ LET l == lcp(f.c[3].toks, new) IN l > 0 /\ 4 * l >= Len(f.c[3].toks)

\* disk_find_best: of the files that pass the gate the one with the largest kept
\* share, then the longest match, then the newest; 0 when there is none.
disk_find_best(new) ==
    LET n(k) == Len(disk[k].c[3].toks)
        l(k) == lcp(disk[k].c[3].toks, new)
        open == {k \in DOMAIN disk : Eligible(disk[k], new)}
        best == {k \in open : \A j \in open :
                    \/ l(k) * n(j) > l(j) * n(k)
                    \/ l(k) * n(j) = l(j) * n(k) /\ (l(k) > l(j) \/ (l(k) = l(j) /\ k >= j))}
    IN  IF best = {} THEN [k |-> 0, l |-> 0, n |-> 1]
        ELSE LET k == CHOOSE k \in best : TRUE IN [k |-> k, l |-> l(k), n |-> n(k)]

\* A writer whose published file has gone goes on writing to no name at all.
Unlink(w, names) ==
    [i \in DOMAIN w |-> IF w[i] # None /\ w[i].name \in names /\ w[i].to = "path"
                       THEN [w[i] EXCEPT !.to = "nowhere"] ELSE w[i]]
NamesOf(d) == {d[k].name : k \in DOMAIN d}

\* disk_spill hands the state to a detached writer after trimming.
disk_spill(p, k, d) ==
    LET n == disk_name(p, model)
        id == CHOOSE i \in DOMAIN writers : writers[i] = None
    IN  /\ \E i \in DOMAIN writers : writers[i] = None
        /\ Overlap \/ \A i \in DOMAIN writers : writers[i] # None => writers[i].name # n
        /\ disk' = disk_trim(disk, Len(p))
        /\ writers' = [Unlink(writers, NamesOf(disk) \ NamesOf(disk')) EXCEPT ![id] =
              [name |-> n, to |-> "tmp", pos |-> 0,
               c |-> [toks |-> p, kv |-> k, model |-> model, drft |-> d]]]
        /\ UNCHANGED tmp

-----------------------------------------------------------------------------
(* The main thread *)

\* After a failed allocation: 0.4 of what is left, at least 1.
LoweredLimit(left) == IF 2 * Total(left) >= 10 THEN (2 * Total(left)) \div 5 ELSE 1

\* server_slot::prompt_save, with the skips of alloc.
prompt_save ==
    IF slot.toks = <<>> \/ Contained(slot.toks, states) \/ Len(slot.toks) > limit
    THEN UNCHANGED <<states, limit, files>>
    ELSE \/ /\ states' = alloc(slot.toks, slot.kv, draft)
            /\ disk_spill(slot.toks, slot.kv, draft)
            /\ UNCHANGED limit
         \/ /\ MayFail        \* bad_alloc, after room was made
            /\ limit' = LoweredLimit(Cleared(slot.toks))
            /\ states' = update(Cleared(slot.toks), limit')
            /\ UNCHANGED files

Keeps(p) == 2 * lcp(slot.toks, p) >= Len(slot.toks) /\ slot.toks # <<>>

\* get_available_slot for a prompt that would lose most of the slot's context.
TakeSlot(p) ==
    /\ up = "running" /\ mpc = "idle" /\ ~ Keeps(p)
    /\ prompt_save
    /\ mpc' = "load" /\ want' = p
    /\ UNCHANGED <<run, slot>>

\* A prompt close to the slot's own goes on without the cache.
ReuseSlot(p) ==
    /\ up = "running" /\ mpc = "idle" /\ Keeps(p)
    /\ mpc' = "run" /\ want' = p
    /\ UNCHANGED <<run, limit, states, slot, files>>

\* The RAM scan of load: each candidate must beat the best so far, at first the
\* slot's own prompt, in the kept share and in the match.
RamBest ==
    FoldLeft(LAMBDA b, i :
                LET l == lcp(states[i].toks, want)
                    n == Len(states[i].toks)
                IN  IF n <= window /\ 4 * l >= n /\ (b.n = 0 \/ b.l * n < l * b.n) /\ b.l < l
                    THEN [i |-> i, l |-> l, n |-> n] ELSE b,
             [i |-> 0, l |-> lcp(slot.toks, want), n |-> Len(slot.toks)],
             [i \in DOMAIN states |-> i])

DiskWins ==
    LET r == RamBest  d == disk_find_best(want)
    IN  /\ d.k # 0
        /\ \/ r.i = 0
           \/ d.l * r.n > r.l * d.n
           \/ d.l * r.n = r.l * d.n /\ d.l > r.l

\* disk_read_best makes room from the front, whatever the hits.
PopFront(list, need) ==
    Behind(list, Min({n \in 0 .. Len(list) :
                         n = Len(list) \/ Total(Behind(list, n)) + need <= limit}))

\* The list the restore works on, and the entry it takes (0: none is better).
Candidates ==
    IF DiskWins
    THEN LET e == disk_read(disk[disk_find_best(want).k])
         IN  Append(PopFront(states, StateSize(e)), e)
    ELSE states
Taken == IF DiskWins THEN Len(Candidates) ELSE RamBest.i

\* A fetched file becomes the newest (utimes).
TouchDisk ==
    /\ disk' = IF DiskWins
               THEN Append(Without(disk, disk_find_best(want).k), disk[disk_find_best(want).k])
               ELSE disk
    /\ UNCHANGED <<tmp, writers>>

Loading == up = "running" /\ mpc = "load"
\* Mutant: the limit is not enforced after a restore.
Loaded_NoUpdate(list, s) ==
    /\ states' = list /\ slot' = s /\ mpc' = "run"
    /\ UNCHANGED <<run, want, limit>>

Loaded(list, s) ==
    /\ states' = update(list, limit) /\ slot' = s /\ mpc' = "run"
    /\ UNCHANGED <<run, want, limit>>

LoadNothing ==
    /\ Loading /\ Taken \notin DOMAIN Candidates
    /\ Loaded(states, slot) /\ UNCHANGED files

\* The target state does not fit the KV memory (external): the entry stays and
\* the slot is cleared.
LoadTooLarge ==
    /\ Loading /\ Taken \in DOMAIN Candidates
    /\ Candidates[Taken].kv # None /\ Len(Candidates[Taken].toks) > window
    /\ Loaded(Hit(Candidates, Taken), Empty) /\ TouchDisk

\* The entry after its blob was restored.
Consumed(list, i) == IF keep THEN list ELSE [list EXCEPT ![i].kv = None]

\* The draft state fails after the target's was restored and consumed.
LoadDraftFails ==
    /\ MayFail /\ Loading /\ Taken \in DOMAIN Candidates
    /\ LET e == Candidates[Taken]
       IN  e.kv # None /\ Len(e.toks) <= window /\ e.drft /\ draft
    /\ Loaded(Consumed(Hit(Candidates, Taken), Taken), Empty) /\ TouchDisk

\* The writers die with the process.  What they published stays; a path.tmp left
\* behind is never read and the next writer truncates it, so it is forgotten.
WritersLost ==
    /\ writers' = [i \in DOMAIN writers |-> None]
    /\ tmp' = [n \in Names |-> None]

\* The process dies: an entry without its blob is dereferenced, or a draft state
\* meets no draft context (GGML_ASSERT).
LoadAborts ==
    /\ Loading /\ Taken \in DOMAIN Candidates
    /\ LET e == Candidates[Taken]
       IN  e.kv = None \/ (Len(e.toks) <= window /\ e.drft /\ ~ draft)
    /\ up' = "aborted" /\ WritersLost
    /\ UNCHANGED <<starts, model, window, draft, keep, mpc, want, limit, states, slot, disk>>

LoadOk ==
    /\ Loading /\ Taken \in DOMAIN Candidates
    /\ LET e == Candidates[Taken]
           list == Hit(Candidates, Taken)
       IN  /\ e.kv # None /\ Len(e.toks) <= window /\ (e.drft => draft)
           /\ Loaded(IF keep THEN list ELSE Without(list, Taken),
                     [toks |-> e.toks, kv |-> e.kv])
    /\ TouchDisk

\* The task runs: the common prefix is reused, the rest is computed on it.
Generate ==
    /\ up = "running" /\ mpc = "run"
    /\ mpc' = "idle" /\ want' = None
    /\ slot' = IF Len(want) > window THEN slot
               ELSE [toks |-> want,
                     kv |-> IF lcp(slot.toks, want) > 0 /\ slot.kv # [of |-> slot.toks, model |-> model]
                            THEN Bad ELSE [of |-> want, model |-> model]]
    /\ UNCHANGED <<run, limit, states, files>>

\* CTX_RESIZE: spool, clear, rebuild; the draft context may not come back.
Resize(n) ==
    /\ up = "running" /\ mpc = "idle" /\ n # window
    /\ prompt_save
    /\ slot' = Empty /\ window' = n
    /\ draft' \in {draft, draft /\ ~ MayFail}
    /\ UNCHANGED <<up, starts, model, keep, mpc, want>>

\* What disk_load finds for model m, newest first: damaged files are removed and
\* other models skipped.
Mirrored(m) ==
    LET f == Sublist(Reverse(disk), {k \in DOMAIN disk : LET g == Reverse(disk)[k]
                                                         IN  Readable(g) /\ g.c[1].model = m})
    IN  [k \in DOMAIN f |-> disk_read(f[k])]

\* disk_load takes the states D of a list one after the other: those that are not
\* contained in what it took before and fit beside it.
disk_load(list, D) ==
    \A k \in DOMAIN list :
        LET l == Sublist(list, {j \in D : j < k})
        IN  k \in D <=> /\ ~ Contained(list[k].toks, l)
                        /\ Total(l) + StateSize(list[k]) <= RamLimit

NewCache(m) ==
    /\ \E D \in SUBSET DOMAIN Mirrored(m) : /\ disk_load(Mirrored(m), D)
                                            /\ states' = Sublist(Mirrored(m), D)
    /\ limit' = RamLimit /\ slot' = Empty
    /\ mpc' = "idle" /\ want' = None
    /\ disk' = Sublist(disk, {k \in DOMAIN disk : Readable(disk[k])})

\* A crash loses the writers; names and bytes already written stay.
Crash ==
    /\ up = "running" /\ starts < MaxStarts
    /\ up' = "down" /\ WritersLost
    /\ UNCHANGED <<starts, model, window, draft, keep, mpc, want, limit, states, slot, disk>>

Start(c) ==
    /\ up # "running" /\ starts < MaxStarts
    /\ up' = "running" /\ starts' = starts + 1
    /\ model' = c.model /\ window' = c.window /\ draft' = c.draft /\ keep' = c.keep
    /\ NewCache(c.model)
    /\ UNCHANGED <<tmp, writers>>

\* Waking from sleep makes a new cache while detached writers still run.
Wake ==
    /\ up = "running" /\ mpc = "idle" /\ starts < MaxStarts
    /\ starts' = starts + 1
    /\ NewCache(model)
    /\ writers' = Unlink(writers, NamesOf(disk) \ NamesOf(disk'))
    /\ UNCHANGED <<up, model, window, draft, keep, tmp>>

-----------------------------------------------------------------------------
(* Detached writers: disk_write *)

Writing(w, pos) == writers[w] # None /\ writers[w].pos = pos
Advance(w) == writers' = [writers EXCEPT ![w].pos = @ + 1]

\* fopen(path.tmp, "wb"): a new file, or the existing one truncated under the
\* writers that have it open.
OpenTmp(w) ==
    /\ Writing(w, 0)
    /\ tmp' = [tmp EXCEPT ![writers[w].name] = Blank]
    /\ Advance(w)
    /\ UNCHANGED <<run, mpc, want, limit, states, slot, disk>>

\* Part number i goes to the file the writer opened, wherever its name is now.
WritePart(w) ==
    LET n == writers[w].name
    IN  /\ \E i \in Part :
              /\ Writing(w, i)
              /\ tmp' = IF writers[w].to = "tmp" THEN [tmp EXCEPT ![n][i] = writers[w].c] ELSE tmp
              /\ disk' = [k \in DOMAIN disk |->
                            IF disk[k].name = n /\ writers[w].to = "path"
                            THEN [disk[k] EXCEPT !.c[i] = writers[w].c] ELSE disk[k]]
        /\ Advance(w)
        /\ UNCHANGED <<run, mpc, want, limit, states, slot>>

\* Where the writers of name n write once path.tmp has been renamed or removed.
Moved(n, to) ==
    [i \in DOMAIN writers |->
        IF writers[i] = None \/ writers[i].name # n \/ writers[i].pos = 0 THEN writers[i]
        ELSE [writers[i] EXCEPT !.to = IF @ = "tmp" THEN to
                                       ELSE IF to = "path" THEN "nowhere" ELSE @]]

\* A short write: path.tmp, whosever it is, is removed and the writer gives up.
WriteFails(w) ==
    LET n == writers[w].name
    IN  /\ MayFail /\ \E i \in Part : Writing(w, i)
        /\ tmp' = [tmp EXCEPT ![n] = None]
        /\ writers' = [Moved(n, "nowhere") EXCEPT ![w] = None]
        /\ UNCHANGED <<run, mpc, want, limit, states, slot, disk>>

\* rename(path.tmp, path): whatever path.tmp names now is published; it fails
\* when another writer has renamed or removed it already.
Rename(w) ==
    LET n == writers[w].name
    IN  /\ disk' = IF tmp[n] = None THEN disk
                   ELSE Append(Sublist(disk, {k \in DOMAIN disk : disk[k].name # n}),
                               [name |-> n, c |-> tmp[n]])
        /\ writers' = [(IF tmp[n] = None THEN writers ELSE Moved(n, "path")) EXCEPT ![w] = None]
        /\ tmp' = [tmp EXCEPT ![n] = None]
        /\ UNCHANGED <<run, mpc, want, limit, states, slot>>

\* Mutant: the file is renamed before its last part is written.
Publish_Early(w) == Writing(w, 3) /\ Rename(w)

Publish(w) == Writing(w, 4) /\ Rename(w)

-----------------------------------------------------------------------------
Init ==
    /\ up = "running" /\ starts = 1
    /\ \E c \in Configs : model = c.model /\ window = c.window /\ draft = c.draft /\ keep = c.keep
    /\ mpc = "idle" /\ want = None
    /\ limit = RamLimit /\ states = <<>> /\ slot = Empty
    /\ disk = <<>>
    /\ tmp = [n \in Names |-> None]
    /\ writers = [w \in 1 .. MaxWriters |-> None]

Main == \/ \E p \in Prompts : TakeSlot(p) \/ ReuseSlot(p)
        \/ LoadNothing \/ LoadTooLarge \/ LoadDraftFails \/ LoadAborts \/ LoadOk \/ Generate
        \/ \E n \in Windows : Resize(n)
        \/ Wake
Next == \/ Main \/ Crash
        \/ \E c \in Configs : Start(c)
        \/ \E w \in DOMAIN writers : OpenTmp(w) \/ WritePart(w) \/ WriteFails(w) \/ Publish(w)
Spec == Init /\ [][Next]_vars

-----------------------------------------------------------------------------
(* Properties *)

IsFile(c) == \A i \in Part : c[i] = None \/ c[i] \in Content
TypeOK ==
    /\ up \in {"running", "aborted", "down"} /\ starts \in 1 .. MaxStarts
    /\ model \in Models /\ window \in Windows /\ {draft, keep} \subseteq BOOLEAN
    /\ mpc \in {"idle", "load", "run"} /\ want \in Prompts \cup {None}
    /\ limit \in 1 .. RamLimit
    /\ \A i \in DOMAIN states : states[i] \in Entry
    /\ slot.toks \in Prompts \cup {<<>>} /\ slot.kv \in Kv \cup {None}
    /\ \A k \in DOMAIN disk : disk[k].name \in Names /\ IsFile(disk[k].c)
    /\ \A n \in Names : tmp[n] = None \/ IsFile(tmp[n])

\* The KV memory of the slot is that of the tokens the slot claims, for the model
\* that runs: no path of save, spill, crash, reload, restore or failed restore
\* leaves foreign bytes under a prompt.
SlotKvSound ==
    up = "running" /\ slot.toks # <<>> => slot.kv = [of |-> slot.toks, model |-> model]

\* The same for what the cache would restore next.
EntriesSound ==
    up = "running" => \A i \in DOMAIN states :
        states[i].kv \in {None, [of |-> states[i].toks, model |-> model]}

\* No prompt is held twice in RAM, whatever mix of saves, disk fetches and reloads
\* brought the entries in.
NoDuplicateEntries ==
    \A i, j \in DOMAIN states : states[i].toks = states[j].toks => i = j

\* Between requests the RAM list is within its limit, also after a disk fetch that
\* is larger than the limit and after the limit was lowered.
RamBounded == up = "running" /\ mpc # "load" => Total(states) <= limit

\* "a torn .tmp from a lost race is inert" (server-task.cpp): a file under its
\* published name holds the three parts of one state.
PublishedWhole ==
    \A k \in DOMAIN disk : \E c \in Content : disk[k].c = [i \in Part |-> c]

\* "continuing without speculative decoding" (server-context.cpp): a run that lost
\* its draft context goes on serving from the cache.
DraftLossSurvived == up # "aborted"
=============================================================================

------------------------------ MODULE FsCrypto ------------------------------
(***************************************************************************)
(* The journal of an open encrypted file (pfscrypto.c). Writes go to a log *)
(* file; when it is full, and at every flush, the authenticators the       *)
(* writes change are appended, the log is finalized, renamed, synced and   *)
(* replayed onto the data file, and deleted. After a restart               *)
(* psync_fs_crypto_check_logs replays the finalized logs it finds.          *)
(*                                                                         *)
(* A new file has all its data here. A modified file has the changes of a  *)
(* remote file: writeintervals says which units of the data file are ours, *)
(* and a write first downloads the authenticators it will change.           *)
(*                                                                         *)
(* The kernel serializes the writes and truncations of a file; a flush by  *)
(* the write timer can run whenever of->mutex is free.                      *)
(***************************************************************************)
EXTENDS CryptoLayout, TLC

CONSTANTS
    Writes,     \* the writes: pairs of an offset and a length
    Sizes,      \* the sizes a truncation asks for
    Remotes,    \* the sizes of the remote file of a modified file
    MaxLog,     \* PSYNC_CRYPTO_MAX_LOG_SIZE, in records (for new files)
    MaxOps, MaxCrashes

VARIABLES
    newfile, remote,   \* remote: the plain text on the server
    of,                \* the open file: log, sectorsinlog, size, intervals
    datafile,          \* file 'd', a sequence of units
    indexfile,         \* file 'i', a set of units
    flog,              \* file 'f', the finalized log, or NoLog
    pc,                \* "idle", or what is left of finalize; "down" after a crash
    pend,              \* a call waiting for a download, of->mutex free, or NoOp
    want,              \* the plain text the calls so far amount to
    saved,             \* what it was at the last commit
    unsynced,          \* the units downloaded since the data file was last synced
    damage,            \* what a download did to the data file: "longer", "over" data;
                       \* or "lost" with a log that needs it
    nops, ncrashes

vars == <<newfile, remote, of, datafile, indexfile, flog, pc, pend, want, saved, unsynced, damage, nops, ncrashes>>

Err == <<-1>>
NoLog == [recs |-> <<>>, filesize |-> -1, ints |-> {}, text |-> <<>>]
NoOp == [off |-> -1, vals |-> <<>>, down |-> -1, need |-> {}]
NoDown == -1

RemoteUnits == Encode(remote)
RemoteSize == Len(remote)    \* of->initialsize

Units(off, len) == off..(off + len - 1)
Smaller(a, b) == IF a < b THEN a ELSE b
Larger(a, b) == IF a < b THEN b ELSE a

----------------------------------------------------------------------------
(* Reading a sector. *)
SectorWith(s, auth, n) ==
    IF /\ auth # Hole
       /\ auth[1] = "a" /\ auth[2] = s
       /\ SubSeq(datafile, data_offset_by_sectorid[s] + 1, data_offset_by_sectorid[s] + n) = Cipher(s, auth[3])
    THEN auth[3] ELSE Err

SectorFromDatafile(s) ==
    Strict(LAMBDA o :
        IF s * Sector >= o.plainsize THEN <<>>
        ELSE SectorWith(s, datafile[auth_sector(o, s \div HTS, 0).off + (s % HTS) + 1],
                        Smaller(Sector, o.plainsize - s * Sector)),
        offsets_by_cryptosize(Len(datafile)))

read_newfile_full_sector(o, s) ==
    IF s \in DOMAIN o.sectorsinlog THEN o.sectorsinlog[s] ELSE SectorFromDatafile(s)

IsLocal(o, s) == newfile \/ data_offset_by_sectorid[s] \in o.writeintervals

(* What read returns for the whole file, sector by sector. *)
View ==
    LET sect(s) == IF IsLocal(of, s) THEN read_newfile_full_sector(of, s) ELSE SectorOf(remote, s)
        cut(c, n) == IF Len(c) < n THEN Err ELSE SubSeq(c, 1, n)
    IN IF of.currentsize = 0 THEN <<>>
       ELSE FlattenSeq([i \in 1..last_sectorid(of.currentsize)+1 |->
                cut(sect(i-1), Smaller(Sector, of.currentsize - (i-1) * Sector))])

----------------------------------------------------------------------------
(* Writing to the log. *)
write_newfile_full_sector(o, s, c) ==
    [o EXCEPT !.log = Append(@, [off |-> data_offset_by_sectorid[s], data |-> Cipher(s, c)]),
              !.sectorsinlog = (s :> c) @@ @,
              !.writeintervals = IF newfile THEN @
                                 ELSE @ \cup Units(data_offset_by_sectorid[s], Len(c))]

(* vals over old from at. *)
Overlay(old, at, vals) ==
    [i \in 1..Larger(Len(old), at + Len(vals)) |->
        IF i > at /\ i <= at + Len(vals) THEN vals[i-at] ELSE IF i <= Len(old) THEN old[i] ELSE 0]

write_newfile_partial_sector(o, s, at, vals) ==
    Strict(LAMBDA old : IF old = Err THEN [o EXCEPT !.failed = TRUE]
                        ELSE write_newfile_full_sector(o, s, Overlay(old, at, vals)),
           read_newfile_full_sector(o, s))

(* The part of a write in one sector; currentsize grows with every part. *)
WritePart(o, part) ==
    LET start == part.s * Sector
        full  == part.at = 0 /\ (Len(part.vals) = Sector \/ start = o.currentsize)
        w     == IF full THEN write_newfile_full_sector(o, part.s, part.vals)
                 ELSE write_newfile_partial_sector(o, part.s, part.at, part.vals)
    IN IF o.failed THEN o
       ELSE [w EXCEPT !.currentsize = Larger(@, start + part.at + Len(part.vals))]

Parts(off, vals) ==
    LET end == off + Len(vals)
        part(s) == LET from == Larger(off, s * Sector)
                       to   == Smaller(end, (s+1) * Sector)
                   IN [s |-> s, at |-> from - s * Sector,
                       vals |-> SubSeq(vals, from - off + 1, to - off)]
    IN IF vals = <<>> THEN <<>>
       ELSE [i \in 1..((end-1) \div Sector) - (off \div Sector) + 1 |-> part(off \div Sector + i - 1)]

Zeros(n) == [i \in 1..n |-> 0]

(* Zeros up to the offset, then the data. *)
write_newfile(o, off, vals) ==
    Fold(WritePart, o, Parts(o.currentsize, Zeros(Larger(0, off - o.currentsize))) \o Parts(off, vals))

----------------------------------------------------------------------------
(* What a write to a modified file downloads first: the sectors it         *)
(* overwrites in part, and the authenticators above them.                  *)
Gap(o, off, len) == {u \in Units(off, len) : \A v \in off..u : v \notin o.writeintervals}

(* The sectors of a write that are remote, and the units of the             *)
(* authenticators above those that begin a group.                           *)
MissingSectors(o, first, last) ==
    {s \in first..last : s * Sector < RemoteSize /\ s * Sector < o.currentsize /\ ~IsLocal(o, s)}

AuthGaps(o, sectors) ==
    Strict(LAMBDA offs :
        UNION {Strict(LAMBDA a : Gap(o, a.off, a.len), get_auth_sector_off(s, l, offs)) :
                    s \in sectors, l \in 0..offs.treelevels},
        offsets_by_plainsize(o.currentsize))

needtodwl(o, off, len) ==
    LET back  == off = RemoteSize /\ off >= Sector /\ off % Sector = 0
        first == off \div Sector - IF back THEN 1 ELSE 0
        last  == IF back THEN first ELSE (off + len - 1) \div Sector
        partial(s) == (s = first /\ off % Sector # 0) \/ (s = last /\ (off + len) % Sector # 0)
        wanted(missing) ==
            UNION {Gap(o, data_offset_by_sectorid[s], Sector) : s \in {t \in missing : partial(t)}}
                \cup AuthGaps(o, {t \in missing : t = first \/ t % HTS = 0})
    IN Strict(LAMBDA missing : {u \in wanted(missing) : u < crypto_size(Smaller(o.currentsize, RemoteSize))},
              MissingSectors(o, first, last))

(* Zeros up to the offset, sector by sector, then the data. *)
Steps(o, op) ==
    (IF o.currentsize < op.off
     THEN LET z == Parts(o.currentsize, Zeros(op.off - o.currentsize))
          IN [i \in DOMAIN z |-> [off |-> z[i].s * Sector + z[i].at, vals |-> z[i].vals]]
     ELSE <<>>) \o (IF op.vals = <<>> THEN <<>> ELSE <<[off |-> op.off, vals |-> op.vals]>>)

(* Runs a call up to its end or to the first download it needs. *)
Run(o, op) ==
    LET step(r, w) ==
            Strict(LAMBDA need :
                IF need # {} THEN [r EXCEPT !.need = need]
                ELSE [r EXCEPT !.of = write_newfile(@, w.off, w.vals)],
                IF newfile \/ r.need # {} THEN r.need ELSE needtodwl(r.of, w.off, Len(w.vals)))
    IN Fold(step, [of |-> o, need |-> {}], Steps(o, op))

----------------------------------------------------------------------------
(* The authenticators of the sectors in the log: write_auth_tree_to_log    *)
(* goes through them in order and, on leaving a group of HTS sectors,       *)
(* writes the authenticators above it up to the first one shared with the  *)
(* next group, and reads the old ones above the next.                       *)
Unset == <<"u">>

(* level l of group secd *)
write_level(t, l, secd, a) ==
    Strict(LAMBDA e : [t EXCEPT !.recs = Append(@, [off |-> a.off, data |-> e]),
                                !.arr[l+2][(secd % HTS) + 1] = TreeAuth(e)],
           SubSeq(t.arr[l+1], 1, a.len))

write_levels(t, old, new, offs) ==
    LET done(l) == l + 1 >= offs.treelevels \/ (new # -1 /\ old \div HTS^(l+1) = new \div HTS^(l+1))
        top     == CHOOSE l \in 0..offs.treelevels : done(l) /\ \A k \in 0..(l-1) : ~done(k)
        write(u, l) == write_level(u, l, old \div HTS^l, auth_sector(offs, old \div HTS^l, l))
    IN Fold(write, t, [i \in 1..top+1 |-> i-1])

(* From the offsets oo of the data file, up to the first level group new     *)
(* shares with group old.                                                    *)
read_from(t, old, new, levels, oo) ==
    LET more(l) == /\ old = -1 \/ old \div HTS^l # new \div HTS^l
                   /\ l < levels
                   /\ l < oo.treelevels \/ (oo.needmasterauth /\ l = oo.treelevels)
        top  == CHOOSE l \in 0..levels : ~more(l+1) /\ \A k \in 1..l : more(k)
        level(u, l, a) == [u EXCEPT !.arr[l+1] = SubSeq(datafile, a.off + 1, a.off + a.len)
                                                    \o SubSeq(@, a.len + 1, HTS)]
        read(u, l) == IF new \div HTS^l > last_sectorid(oo.plainsize) \div HTS^(l+1) THEN u
                      ELSE Strict(LAMBDA a : level(u, l, a), auth_sector(oo, new \div HTS^l, l))
    IN Fold(read, t, [i \in 1..top+1 |-> i-1])

read_levels(t, old, new, offs) ==
    IF Len(datafile) <= 1 THEN t
    ELSE Strict(LAMBDA oo : read_from(t, old, new, offs.treelevels, oo), offsets_by_cryptosize(Len(datafile)))

(* A group of sectors with a sector in the log. *)
enter_group(t, g, sects, offs) ==
    LET new(i) == g * HTS + i - 1 \in DOMAIN sects
        auth(i) == DataAuth(g * HTS + i - 1, sects[g * HTS + i - 1])
    IN Strict(LAMBDA r : [r EXCEPT !.group = g,
                                   !.arr[1] = [i \in 1..HTS |-> IF new(i) THEN auth(i) ELSE @[i]]],
              Strict(LAMBDA w : read_levels(w, t.group, g, offs),
                     IF t.group = -1 THEN t ELSE write_levels(t, t.group, g, offs)))

(* Nothing is left to write when no sector is in the log. *)
leave_last_group(t, offs) ==
    LET master(u) == [off |-> offs.masterauthoff,
                      data |-> <<TreeAuth(SubSeq(u.arr[offs.treelevels], 1, offs.len[offs.treelevels]))>>]
    IN Strict(LAMBDA u : u.recs \o IF offs.needmasterauth THEN <<master(u)>> ELSE <<>>,
              IF t.group = -1 THEN t ELSE write_levels(t, t.group, -1, offs))

write_auth_tree_to_log(o, offs) ==
    LET groups == SetToSortSeq({s \div HTS : s \in DOMAIN o.sectorsinlog}, <)
        start  == [group |-> -1, recs |-> <<>>,
                   arr |-> [l \in 1..offs.treelevels+1 |-> [i \in 1..HTS |-> Unset]]]
    IN leave_last_group(Fold(LAMBDA u, g : enter_group(u, g, o.sectorsinlog, offs), start, groups), offs)

----------------------------------------------------------------------------
(* Finalize, in the steps a crash can tell apart: the log becomes 'f',     *)
(* 'f' is synced, 'f' is replayed and deleted.                              *)
EmptyLog(o) == [o EXCEPT !.log = <<>>, !.sectorsinlog = <<>>]

NothingToFinalize(o) == o.log = <<>> /\ crypto_size(o.currentsize) = Len(datafile)

(* text: the plain text this commits, for the properties. *)
finalized_log(o, offs, auth) ==
    [recs |-> o.log \o auth, filesize |-> offs.masterauthoff + IF offs.needmasterauth THEN 1 ELSE 0,
     ints |-> IF newfile THEN {}
              ELSE o.writeintervals \cup UNION {Units(auth[i].off, Len(auth[i].data)) : i \in DOMAIN auth}]

do_finalize_log(o, text) ==
    IF NothingToFinalize(o)
    THEN of' = o /\ UNCHANGED <<flog, pc>>
    ELSE \E offs \in {offsets_by_plainsize(o.currentsize)} :
         \E auth \in {write_auth_tree_to_log(o, offs)} :
            /\ flog' = finalized_log(o, offs, auth) @@ [text |-> text]
            /\ of' = [EmptyLog(o) EXCEPT !.writeintervals = flog'.ints]
            /\ pc' = "flush"

Resized(d, n) == [i \in 1..n |-> IF i <= Len(d) THEN d[i] ELSE Hole]

ApplyRecord(d, r) ==
    IF r.off + Len(r.data) > Len(d) THEN d
    ELSE [i \in 1..Len(d) |-> IF i > r.off /\ i <= r.off + Len(r.data) THEN r.data[i - r.off] ELSE d[i]]

process_log(d) == Fold(ApplyRecord, Resized(d, flog.filesize), flog.recs)

(* psync_fs_crypto_log_flush_and_process *)
flush_log == /\ pc = "flush"
             /\ pc' = "process"
             /\ saved' = flog.text
             /\ UNCHANGED <<newfile, remote, of, datafile, indexfile, flog, pend, want, unsynced, damage, nops, ncrashes>>

M_replay_log ==
    /\ pc = "process"
    /\ datafile' = process_log(datafile)
    /\ flog' = NoLog
    /\ unsynced' = {}
    /\ pc' = "idle"
    /\ UNCHANGED <<newfile, remote, of, indexfile, pend, want, saved, damage, nops, ncrashes>>

(* The data file and the index are synced before the log is deleted.        *)
replay_log == /\ pc = "process"
              /\ datafile' = process_log(datafile)
              /\ indexfile' = flog.ints
              /\ flog' = NoLog
              /\ unsynced' = {}
              /\ pc' = "idle"
              /\ UNCHANGED <<newfile, remote, of, pend, want, saved, damage, nops, ncrashes>>

----------------------------------------------------------------------------
(* The calls, with of->mutex held from here to the end or to a download.   *)
LogFull(o) == newfile /\ Len(o.log) >= MaxLog

M_truncate_tail(o, size, buf) ==
    LET last == last_sectorid(size)
        w    == write_newfile_full_sector([o EXCEPT !.currentsize = last * Sector], last,
                    SubSeq(buf, 1, size - last * Sector))
    IN [w EXCEPT !.currentsize = size, !.writeintervals = {u \in @ : u < crypto_size(size)}]

M_truncate_tail_plain(o, size, buf) ==
    LET last == last_sectorid(size)
        kept == {s \in DOMAIN o.sectorsinlog : s < last}
        cut  == [o EXCEPT !.currentsize = last * Sector,
                          !.sectorsinlog = [s \in kept |-> o.sectorsinlog[s]]]
        w    == write_newfile_full_sector(cut, last, SubSeq(buf, 1, size - last * Sector))
    IN [w EXCEPT !.currentsize = size, !.writeintervals = {u \in @ : u < size}]

(* The sector a truncation ends in is rewritten with its new length. *)
truncate_tail(o, size, buf) ==
    LET last == last_sectorid(size)
        kept == {s \in DOMAIN o.sectorsinlog : s < last}
        cut  == [o EXCEPT !.currentsize = last * Sector,
                          !.sectorsinlog = [s \in kept |-> o.sectorsinlog[s]]]
        w    == write_newfile_full_sector(cut, last, SubSeq(buf, 1, size - last * Sector))
    IN [w EXCEPT !.currentsize = size,
                 !.writeintervals = {u \in @ : u < crypto_size(size)}]

(* Runs a call to its end, or leaves it in pend with the mutex released:   *)
(* until then it has at most made the file longer.                          *)
Proceed(o, op) ==
    \E r \in {Run(o, op)} :
        IF r.need # {}
        THEN /\ of' = r.of
             /\ pend' = [op EXCEPT !.need = r.need]
             /\ want' = Overlay(want, r.of.currentsize, <<>>)
             /\ UNCHANGED <<flog, pc>>
        ELSE /\ pend' = NoOp
             /\ want' = IF op.down # NoDown THEN SubSeq(want, 1, op.down) ELSE Overlay(want, op.off, op.vals)
             /\ IF op.down # NoDown
                THEN of' = truncate_tail(r.of, op.down, op.vals) /\ UNCHANGED <<flog, pc>>
                ELSE IF op.vals # <<>> /\ LogFull(r.of) THEN do_finalize_log(r.of, want')
                ELSE of' = r.of /\ UNCHANGED <<flog, pc>>

(* Bound: no call starts or goes on after a download has damaged the data file. *)
Ready == pc = "idle" /\ pend = NoOp /\ nops < MaxOps /\ damage = "none"

(* psync_fs_crypto_write_newfile_locked and write_modified_locked *)
write(w) ==
    /\ Ready
    /\ nops' = nops + 1
    /\ Proceed(of, [NoOp EXCEPT !.off = w[1], !.vals = [i \in 1..w[2] |-> nops + 1]])
    /\ UNCHANGED <<newfile, remote, datafile, indexfile, saved, unsynced, damage, ncrashes>>

ftruncate_up(size) ==
    /\ Ready /\ size > of.currentsize
    /\ nops' = nops + 1
    /\ Proceed(of, [NoOp EXCEPT !.off = size])
    /\ UNCHANGED <<newfile, remote, datafile, indexfile, saved, unsynced, damage, ncrashes>>

ftruncate_to_zero ==
    /\ Ready /\ of.currentsize > 0
    /\ nops' = nops + 1
    /\ want' = <<>>
    /\ of' = [EmptyLog(of) EXCEPT !.currentsize = 0,
                !.writeintervals = IF newfile THEN {} ELSE Units(0, crypto_size(RemoteSize))]
    /\ UNCHANGED <<newfile, remote, datafile, indexfile, flog, pc, pend, saved, unsynced, damage, ncrashes>>

(* A last sector that is still remote is first read and written whole,     *)
(* which downloads the authenticators above it.                             *)
ftruncate_down(size) ==
    LET last == last_sectorid(size)
        buf  == IF IsLocal(of, last) THEN read_newfile_full_sector(of, last)
                ELSE SubSeq(SectorOf(remote, last), 1, Smaller(Sector, of.currentsize - last * Sector))
    IN /\ Ready /\ size > 0 /\ size < of.currentsize
       /\ nops' = nops + 1
       /\ IF IsLocal(of, last)
          THEN /\ of' = truncate_tail(of, size, buf)
               /\ want' = SubSeq(want, 1, size)
               /\ UNCHANGED <<flog, pc, pend>>
          ELSE Proceed(of, [NoOp EXCEPT !.off = last * Sector, !.vals = buf, !.down = size])
       /\ UNCHANGED <<newfile, remote, datafile, indexfile, saved, unsynced, damage, ncrashes>>

(* The download is over: what nobody else wrote meanwhile goes to the data *)
(* file, which is not synced, and the call starts over.                     *)
SameRun(u, v) == \A x \in Smaller(u, v)..Larger(u, v) : x \in pend.need

Overwritten(d, units) ==
    [i \in 1..FoldSet(Larger, Len(d), {u + 1 : u \in units}) |->
        IF i - 1 \in units THEN RemoteUnits[i] ELSE IF i <= Len(d) THEN d[i] ELSE Hole]

downloaded ==
    LET taken == pend.need \cap of.writeintervals
        good  == {u \in pend.need : \A v \in taken : u < v /\ ~SameRun(u, v)}
    IN /\ pc = "idle" /\ pend.need # {}
       /\ datafile' = Overwritten(datafile, good)
       /\ of' = [of EXCEPT !.writeintervals = @ \cup good]
       /\ pend' = [pend EXCEPT !.need = {}]
       /\ unsynced' = unsynced \cup good
       /\ damage' = IF \E u \in good : u < Len(datafile) /\ datafile[u+1] \notin {Hole, RemoteUnits[u+1]}
                    THEN "over" ELSE IF Len(datafile') > Len(datafile) THEN "longer" ELSE "none"
       /\ UNCHANGED <<newfile, remote, indexfile, flog, pc, want, saved, nops, ncrashes>>

(* of->mutex is still held. *)
retry ==
    /\ pc = "idle" /\ pend # NoOp /\ pend.need = {} /\ damage = "none"
    /\ Proceed(of, pend)
    /\ UNCHANGED <<newfile, remote, datafile, indexfile, saved, unsynced, damage, nops, ncrashes>>

download_failed ==
    /\ pc = "idle" /\ pend.need # {}
    /\ pend' = NoOp
    /\ UNCHANGED <<newfile, remote, of, datafile, indexfile, flog, pc, want, saved, unsynced, damage, nops, ncrashes>>

(* psync_fs_flush, fsync, release, and the write timer *)
flush_file ==
    /\ pc = "idle" /\ (pend = NoOp \/ pend.need # {})
    /\ ~NothingToFinalize(of) /\ damage = "none"
    /\ do_finalize_log(of, want)
    /\ UNCHANGED <<newfile, remote, datafile, indexfile, pend, want, saved, unsynced, damage, nops, ncrashes>>

----------------------------------------------------------------------------
(* A crash loses the log, and of what was not synced any part: a finalized *)
(* log that is incomplete fails its hash, a replay may have done some of    *)
(* its writes, and downloaded units may be gone.                            *)
Partial(d, done) ==
    Fold(LAMBDA x, i : IF i \in done THEN ApplyRecord(x, flog.recs[i]) ELSE x,
         Resized(d, flog.filesize), [i \in DOMAIN flog.recs |-> i])

(* Bound: the first writes of the replay, or all of them but one. *)
Survivors == LET n == Len(flog.recs)
             IN {1..k : k \in 0..n} \cup {(1..n) \ {k} : k \in 1..n}

(* The units that a log counts on but does not write. *)
OnlyInDatafile(log) ==
    log.ints \ UNION {Units(log.recs[i].off, Len(log.recs[i].data)) : i \in DOMAIN log.recs}

(* Bound: none of the downloaded units, all, or all but those the log needs. *)
Losses == {{}, unsynced, unsynced \ OnlyInDatafile(flog)}

crash ==
    \E lost \in Losses : \E left \in {[i \in DOMAIN datafile |-> IF i - 1 \in lost THEN Hole ELSE datafile[i]]} :
    /\ pc # "down" /\ ncrashes < MaxCrashes
    /\ ncrashes' = ncrashes + 1
    /\ pc' = "down"
    /\ of' = [EmptyLog(of) EXCEPT !.currentsize = 0, !.writeintervals = {}]
    /\ pend' = NoOp
    /\ \/ datafile' = left /\ UNCHANGED indexfile
       \/ /\ pc = "process"
          /\ \E done \in Survivors, i \in {{}, flog.ints} : datafile' = Partial(left, done) /\ indexfile' = i
    /\ IF pc = "flush" THEN flog' \in {flog, NoLog} ELSE UNCHANGED flog
    /\ saved' = IF flog' = NoLog THEN saved ELSE flog.text
    /\ want' = saved'
    /\ unsynced' = (unsynced \ lost) \cap (0..Len(datafile')-1)
    /\ damage' = IF damage = "none" /\ OnlyInDatafile(flog') \cap lost # {} THEN "lost" ELSE damage
    /\ UNCHANGED <<newfile, remote, nops>>

(* psync_fs_crypto_check_logs, and then open_write_files *)
check_logs ==
    LET d == IF flog = NoLog THEN datafile ELSE process_log(datafile)
        i == IF flog = NoLog THEN indexfile ELSE flog.ints
    IN /\ pc = "down"
       /\ datafile' = d
       /\ indexfile' = i
       /\ flog' = NoLog
       /\ unsynced' = IF flog = NoLog THEN unsynced ELSE {}
       /\ of' = [of EXCEPT !.currentsize = plain_size(Len(d)), !.writeintervals = i]
       /\ pc' = "idle"
       /\ UNCHANGED <<newfile, remote, pend, want, saved, damage, nops, ncrashes>>

----------------------------------------------------------------------------
InitFile(new, n) ==
    /\ newfile = new
    /\ remote = [i \in 1..n |-> MaxOps + 1]
    /\ datafile = [i \in 1..crypto_size(n) |-> Hole]
    /\ of = [log |-> <<>>, sectorsinlog |-> <<>>, currentsize |-> n, writeintervals |-> {}, failed |-> FALSE]
    /\ want = remote /\ saved = remote /\ damage = "none"

(* psync_fs_creat, or psync_fs_reopen_file_for_writing *)
Init ==
    /\ InitFile(TRUE, 0) \/ \E n \in Remotes : InitFile(FALSE, n)
    /\ indexfile = {} /\ unsynced = {} /\ flog = NoLog /\ pc = "idle" /\ pend = NoOp
    /\ nops = 0 /\ ncrashes = 0

Next ==
    \/ \E w \in Writes : write(w)
    \/ \E n \in Sizes : ftruncate_up(n) \/ ftruncate_down(n)
    \/ ftruncate_to_zero
    \/ downloaded \/ retry \/ download_failed
    \/ flush_file \/ flush_log \/ replay_log
    \/ crash \/ check_logs

Spec == Init /\ [][Next]_vars

----------------------------------------------------------------------------
(* The plain text of the data file over the remote one, if it is intact. *)
Decoded(m) == Strict(LAMBDA p : IF m = Encode(p) THEN p ELSE Err, Plain(m))

Content(d, ints) ==
    Strict(LAMBDA e : Strict(LAMBDA m : IF newfile THEN Strict(Decoded, m)
               ELSE Strict(Decoded, [i \in 1..Len(m) |-> IF i - 1 \in ints THEN m[i]
                                                 ELSE IF i <= Len(e) THEN e[i] ELSE Hole]), d),
           RemoteUnits)

(* The log and the intervals of an open file fit its size: what truncation  *)
(* drops from one it drops from the other, and a sector of the log is at    *)
(* most as long as the file has of it.                                      *)
TypeOK ==
    /\ newfile \in BOOLEAN /\ damage \in {"none", "longer", "over", "lost"}
    /\ unsynced \subseteq 0..Len(datafile)-1
    /\ pc \in {"idle", "flush", "process", "down"}
    /\ of.currentsize \in Nat
    /\ ~of.failed
    /\ \A s \in DOMAIN of.sectorsinlog :
          /\ s <= last_sectorid(of.currentsize)
          /\ Len(of.sectorsinlog[s]) = Smaller(Sector, of.currentsize - s * Sector)
    /\ of.writeintervals \subseteq Nat
    /\ newfile => of.writeintervals = {}

(* Reads see what the writes and truncations so far amount to, whichever   *)
(* parts of the file are on the server, in the data file and in the log.    *)
ReadsLatest == (pc = "idle" /\ damage = "none") => View = want

(* What a restart finds is the last commit, or the one under way, whole.    *)
Whole ==
    saved = IF flog # NoLog /\ pc # "flush" THEN Content(process_log(datafile), flog.ints)
            ELSE Content(datafile, indexfile)

(* Whenever the client dies, the restart finds the last commit, or the one *)
(* under way, whole and authenticated, unless a download was lost with it.  *)
CommitsAreAtomic == damage # "none" \/ Whole

(* pfscrypto.c says of the downloads that it writes without a sync: "we do  *)
(* NOT need to fsync of->datafile". So a restart that finds the data file   *)
(* without them finds a commit whole.                                       *)
DownloadsNeedNoSync == damage \in {"longer", "over"} \/ Whole

(* And it says why: "as we wrote to positions that were empty".             *)
DownloadsFillHoles == damage # "over"
=============================================================================

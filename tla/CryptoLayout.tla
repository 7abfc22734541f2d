--------------------------- MODULE CryptoLayout ---------------------------
(***************************************************************************)
(* The layout of an encrypted file (pfscrypto.c). The plain text is cut    *)
(* into sectors. Every HTS data sectors are followed by a sector of their  *)
(* authenticators, every HTS of those by a sector of theirs, and so on;    *)
(* the last, partial sectors of every level close the file, and a file of  *)
(* more than one sector ends with a master authenticator.                  *)
(*                                                                         *)
(* Sizes are in units of PSYNC_CRYPTO_AUTH_SIZE, so a sector, which holds   *)
(* HTS authenticators, is HTS units long. Cryptography is abstract: unit i  *)
(* of the cipher text of sector s with plain text c is <<"d", s, c, i>>,    *)
(* its authenticator <<"a", s, c>>, and that of a sector e of               *)
(* authenticators <<"t", e>>: nothing else decodes.                         *)
(***************************************************************************)
EXTENDS Integers, Sequences, SequencesExt, FiniteSetsExt

CONSTANT HTS    \* PSYNC_CRYPTO_HASH_TREE_SECTORS

ASSUME HTSAssumption == HTS \in Nat \ {0, 1}

Sector == HTS

Hole == <<>>    \* a unit nobody wrote

DataAuth(s, c) == <<"a", s, c>>
Cipher(s, c) == [i \in 1..Len(c) |-> <<"d", s, c, i>>]
TreeAuth(e) == <<"t", e>>

(* F(v) with v evaluated once, and FoldLeft so: in a primed expression TLC   *)
(* evaluates an argument again at every use.                                *)
Strict(F(_), v) == CHOOSE r \in {F(x) : x \in {v}} : TRUE

Fold(op(_, _), base, seq) ==
    LET f[i \in 0..Len(seq)] ==
            IF i = 0 THEN base ELSE Strict(LAMBDA x : op(x, seq[i]), f[i-1])
    IN f[Len(seq)]

CeilDiv(a, b) == (a + b - 1) \div b

----------------------------------------------------------------------------
(* The largest file of each level, with the authenticators of all levels up to it. *)
max_level_size[l \in Nat] ==
    IF l = 0 THEN Sector ELSE HTS * max_level_size[l-1] + Sector

data_offset_by_sectorid[s \in Nat] ==
    s * Sector + IF s < HTS THEN 0 ELSE data_offset_by_sectorid[s \div HTS]

M_auth_offset(l, id) == max_level_size[l+1] * (id + 1) - Sector

(* Every sector of authenticators but the last one of its level. *)
auth_offset(l, id) ==
    max_level_size[l+1] * (id + 1) - Sector
        + IF id < HTS THEN 0 ELSE data_offset_by_sectorid[id \div HTS]

last_sectorid(size) == IF size = 0 THEN 0 ELSE (size - 1) \div Sector

NoOffsets == [plainsize |-> 0, needmasterauth |-> FALSE, treelevels |-> 0,
              off |-> <<0>>, len |-> <<0>>, masterauthoff |-> 0]

(* off and len are indexed from one: level l is at l+1. *)
Total(len) == FoldSeq(+, 0, len)

OffsetsOf(size, need, base, len) ==
    [plainsize |-> size, needmasterauth |-> need, treelevels |-> Len(len) - 1,
     off |-> [i \in DOMAIN len |-> base + Total(SubSeq(len, 1, i - 1))], len |-> len,
     masterauthoff |-> base + Total(len) - 1]

(* The lengths of the last sectors of levels of cnt[1], cnt[2].. authenticators. *)
LastLengths(cnt) == [i \in DOMAIN cnt |-> ((cnt[i] - 1) % HTS) + 1] \o <<1>>

offsets_by_plainsize(size) ==
    LET count(l) == CeilDiv(size, Sector * HTS^l)
        levels   == CHOOSE l \in 1..size : count(l) <= 1 /\ (l = 1 \/ count(l-1) > 1)
        base     == data_offset_by_sectorid[last_sectorid(size)] + size - last_sectorid(size) * Sector
    IN IF size = 0 THEN NoOffsets
       ELSE OffsetsOf(size, size > Sector, base, LastLengths([i \in 1..levels |-> count(i-1)]))

(* What is left of a size below the authenticators of the top levels. *)
BelowTop(end, levels) ==
    LET rest[k \in 0..levels] ==
            IF k = 0 THEN end
            ELSE Strict(LAMBDA m : rest[k-1] - (rest[k-1] + m) \div (m + 1), max_level_size[levels-k])
    IN rest

offsets_by_cryptosize(size) ==
    LET end    == IF size > Sector + 1 THEN size - 1 ELSE size
        levels == CHOOSE l \in 1..size : end <= max_level_size[l] /\ (l = 1 \/ end > max_level_size[l-1])
        by(rest, n) ==
            Strict(LAMBDA len : OffsetsOf(rest[n], size > Sector + 1, end + 1 - Total(len), len),
                   LastLengths([i \in 1..n |-> rest[n-i] - rest[n-i+1]]))
    IN IF size <= 1 THEN NoOffsets
       ELSE Strict(LAMBDA n : Strict(LAMBDA rest : by(rest, n), BelowTop(end, n)), levels)

crypto_size(size) ==
    Strict(LAMBDA o : o.masterauthoff + IF o.needmasterauth THEN 1 ELSE 0, offsets_by_plainsize(size))

plain_size(size) == offsets_by_cryptosize(size).plainsize

(* Where the authenticator sector of level l above a data sector is, and its length. *)
auth_sector(o, secd, l) ==
    IF secd = last_sectorid(o.plainsize) \div HTS^(l+1)
    THEN [off |-> o.off[l+1], len |-> o.len[l+1]]
    ELSE [off |-> auth_offset(l, secd), len |-> Sector]

get_auth_sector_off(sectorid, l, o) == auth_sector(o, sectorid \div HTS^(l+1), l)
----------------------------------------------------------------------------
(* The format itself, from its description and not from the arithmetic: a   *)
(* post-order walk of the tree. Node[<<l, i>>] is the i-th subtree of        *)
(* level l, as its bytes and its authenticator.                             *)
SectorOf(p, s) == SubSeq(p, s * Sector + 1, IF Len(p) < (s+1) * Sector THEN Len(p) ELSE (s+1) * Sector)

Encode(p) ==
    LET sectors == CeilDiv(Len(p), Sector)
        top     == CHOOSE l \in 1..Len(p) : HTS^l >= sectors /\ (l = 1 \/ HTS^(l-1) < sectors)
        Node[n \in (0..top) \X (0..sectors-1)] ==
            IF n[1] = 0
            THEN [bytes |-> Cipher(n[2], SectorOf(p, n[2])), auth |-> DataAuth(n[2], SectorOf(p, n[2]))]
            ELSE LET kids  == CeilDiv(sectors, HTS^(n[1]-1)) - n[2] * HTS
                     child == [i \in 1..(IF kids < HTS THEN kids ELSE HTS)
                                    |-> Node[<<n[1] - 1, n[2] * HTS + i - 1>>]]
                     auths == [i \in DOMAIN child |-> child[i].auth]
                 IN [bytes |-> FlattenSeq([i \in DOMAIN child |-> child[i].bytes]) \o auths,
                     auth  |-> TreeAuth(auths)]
    IN IF p = <<>> THEN <<>>
       ELSE Node[<<top, 0>>].bytes \o IF sectors > 1 THEN <<Node[<<top, 0>>].auth>> ELSE <<>>

(* The plain text of an intact cipher text. *)
Plain(d) ==
    LET o == offsets_by_cryptosize(Len(d))
        sect(s) == LET u == d[data_offset_by_sectorid[s] + 1]
                   IN IF u # Hole /\ u[1] = "d" THEN u[3] ELSE <<>>
    IN IF o.plainsize = 0 THEN <<>>
       ELSE FlattenSeq([k \in 1..last_sectorid(o.plainsize)+1 |-> sect(k-1)])
============================================================================

----------------------------- MODULE MCFsCrypto -----------------------------
(* The journal of an open encrypted file and its extender. They are         *)
(* modelled apart, the one by units of a sector, the other by chunks of     *)
(* many, so a behaviour is one of either, as `part' chooses.                *)
EXTENDS FsCrypto, ExtendedFile

CONSTANTS Callers, Writer, MaxSize, Over, MaxLogged, MaxCalls

VARIABLES
    part, extender, waiters, awake, at, call, ncalls

E == INSTANCE FsExtender

extenderVars ==
    <<isnew, ofile, extender, thread, waiters, awake, at, call, aborted, misled, holes, ncalls>>

ASSUME E!ExtenderAssumption

CryptoInit ==
    /\ part \in {"journal", "extender"}
    /\ Init /\ E!Init /\ isnew = newfile
    /\ part = "extender" => Len(remote) \in {0, CHOOSE n \in Remotes : TRUE}

JournalNext == part = "journal" /\ Next /\ UNCHANGED <<part, extenderVars>>
ExtenderNext == part = "extender" /\ E!Next /\ UNCHANGED <<part, vars>>

CryptoSpec ==
    CryptoInit /\ [][JournalNext \/ ExtenderNext]_<<part, vars, extenderVars>> /\ E!Fairness

(* A part of a sector, two parts, whole sectors, and past the end. *)
WriteSet == {<<0, 1>>, <<1, 2>>, <<4, 2>>, <<5, 3>>}
SizeSet == {1, 4, 7}

(* Sizes of up to five levels of authenticators. *)
LayoutSizes == 1..40
TextOf(n) == [i \in 1..n |-> i]

(* The arithmetic of the layout agrees with the format: the sizes, where    *)
(* each sector and each authenticator above it is, and the inverse of the   *)
(* size, which must agree at the boundaries of the levels too. It does not  *)
(* depend on the state: the first states are enough to check it.            *)
LayoutExact ==
    (nops = 0 /\ part = "journal") =>
    \A n \in LayoutSizes : \E e \in {Encode(TextOf(n))}, o \in {offsets_by_plainsize(n)} :
        /\ crypto_size(n) = Len(e)
        /\ offsets_by_cryptosize(Len(e)) = o
        /\ Plain(e) = TextOf(n)
        /\ \A s \in 0..last_sectorid(n), l \in 0..o.treelevels-1 :
              LET a == get_auth_sector_off(s, l, o)
                  b == get_auth_sector_off(s, l-1, o)
              IN e[a.off + ((s \div HTS^l) % HTS) + 1]
                    = IF l = 0 THEN DataAuth(s, SectorOf(TextOf(n), s))
                      ELSE TreeAuth(SubSeq(e, b.off + 1, b.off + b.len))

(* The log and the intervals of the journal fit the size of the file, and   *)
(* who waits for the extender is counted and has one.                       *)
TypesOK == TypeOK /\ E!TypeOK

(* Every call that waits for the extender returns.                          *)
CallsReturn == E!CallsReturn
=============================================================================

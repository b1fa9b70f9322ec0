--------------------------- MODULE SdmmcProofs ---------------------------
(***************************************************************************)
(* Proofs about the SDMMC drivers: the front ends (SdmmcStorage), for any  *)
(* number of cards and retries, and the tap scan (SdmmcTuning), for every  *)
(* number of taps and window size.                                         *)
(***************************************************************************)
EXTENDS SdmmcStorage, SdmmcTuning, TLAPS

----------------------------------------------------------------------------
(* SdmmcStorage                                                            *)

Drv == [initialized : BOOLEAN, partition : Parts, clk : BOOLEAN, ready : BOOLEAN, cpart : Parts]
AllModes == INIT_FAIL .. DEFAULT_SPEED
Present == Cards \cup {Chip, None}

\* A storage that is marked initialized has its clock running.
Clocked(d) == d.initialized => d.clk

LEMMA EndedOK ==
  ASSUME NEW d \in Drv, NEW e \in Ended(d), Clocked(d)
  PROVE  e \in Drv /\ Clocked(e) /\ (~flaky => ~e.initialized)
  BY DEF Ended, Drv, Parts, Clocked

LEMMA AttemptedOK ==
  ASSUME NEW d \in Drv, NEW a \in Attempted(d)
  PROVE  /\ a.drv \in Drv /\ Clocked(a.drv) /\ a.res \in {0, 1}
         /\ a.res = 0 => a.drv.initialized
         /\ a.res = 1 => ~a.drv.initialized
<1> DEFINE zero == [d EXCEPT !.initialized = FALSE, !.partition = GPP, !.clk = FALSE]
           sent == [zero EXCEPT !.clk = TRUE, !.ready = FALSE, !.cpart = GPP]
           ok   == [sent EXCEPT !.ready = TRUE, !.initialized = TRUE]
<1>1. \/ a = [drv |-> zero, res |-> 1]
      \/ a = [drv |-> sent, res |-> 1]
      \/ a = [drv |-> ok, res |-> 0]
  BY DEF Attempted
<1>2. /\ zero \in Drv /\ ~zero.initialized
      /\ sent \in Drv /\ ~sent.initialized
      /\ ok \in Drv /\ ok.initialized /\ ok.clk
  BY DEF Drv, Parts
<1> HIDE DEF zero, sent, ok
<1> QED BY <1>1, <1>2 DEF Clocked

\* Every result of sd_init_retry and emmc_init_retry, from drivers in ds.
LEMMA RetryOK ==
  ASSUME NEW ds \in SUBSET Drv, \A d \in ds : Clocked(d),
         NEW m \in 0 .. U32Wrap, NEW r \in InitRetry(ds, m), init_done \in BOOLEAN
  PROVE  /\ r.mode \in AllModes /\ r.drv \in Drv /\ Clocked(r.drv)
         /\ r.res \in {0, 1} /\ r.done \in BOOLEAN
         /\ r.res = 0 => r.drv.initialized /\ r.done
         /\ r.res = 1 /\ m # INIT_FAIL => ~r.drv.initialized /\ ~r.done
         /\ m = INIT_FAIL => r.res = 1 /\ r.mode = INIT_FAIL /\ r.done = init_done /\ r.drv \in ds
         /\ m # INIT_FAIL => r.mode # INIT_FAIL
<1>1. CASE m = INIT_FAIL
  BY <1>1 DEF InitRetry, AllModes, INIT_FAIL, DEFAULT_SPEED
<1>2. CASE m # INIT_FAIL
  <2>0. PICK a \in UNION {Attempted(d) : d \in ds} :
          r = [mode |-> IF m = U32Wrap THEN DEFAULT_SPEED ELSE m, drv |-> a.drv,
               res |-> a.res, done |-> a.res = 0]
    BY <1>2 DEF InitRetry
  <2>1. PICK d \in ds : a \in Attempted(d)
    OBVIOUS
  <2>2. /\ a.drv \in Drv /\ Clocked(a.drv) /\ a.res \in {0, 1}
        /\ a.res = 0 => a.drv.initialized
        /\ a.res = 1 => ~a.drv.initialized
    BY <2>1, AttemptedOK
  <2>3. (IF m = U32Wrap THEN DEFAULT_SPEED ELSE m) \in AllModes \ {INIT_FAIL}
    BY <1>2 DEF AllModes, INIT_FAIL, DEFAULT_SPEED, U32Wrap
  <2>4. /\ r.mode \in AllModes \ {INIT_FAIL} /\ r.drv = a.drv /\ r.res = a.res
        /\ r.done = (a.res = 0)
    BY <2>0, <2>3
  <2>5. CASE a.res = 0
    <3>1. a.drv.initialized /\ r.done
      BY <2>2, <2>4, <2>5
    <3> QED BY <1>2, <2>2, <2>4, <2>5, <3>1
  <2>6. CASE a.res = 1
    <3>1. ~a.drv.initialized /\ ~r.done
      BY <2>2, <2>4, <2>6
    <3> QED BY <1>2, <2>2, <2>4, <2>6, <3>1
  <2> QED BY <2>2, <2>5, <2>6
<1> QED BY <1>1, <1>2

----------------------------------------------------------------------------
(* The invariant.                                                          *)

\* What sd_init_done and the mode say of the driver, everywhere in a call.
DriverHonest ==
    /\ kind \in {"sd", "emmc"} /\ flaky \in BOOLEAN
    /\ Clocked(drv)
    /\ kind = "sd" /\ ~flaky /\ init_done /\ ~drv.initialized => mode = INIT_FAIL
    /\ kind = "sd" /\ ~flaky /\ mode = INIT_FAIL => ~drv.initialized
    /\ kind = "sd" /\ ~flaky /\ pc = "init" /\ res # 0 => ~init_done
    /\ pc \in {"io", "ioerr"} => drv.initialized
    /\ pc \in {"init", "initdone"} /\ res = 0 => drv.initialized

\* The locals of a transfer, also while it is being recovered.
Transferring == pc \in {"io", "ioerr"} \/ (pc \in {"init", "initdone"} /\ init_for = "io")

IoConsistent ==
    /\ Transferring =>
         /\ io.sector + io.num <= NumSectors
         /\ io.off + io.total = io.sector + io.num
         /\ io.sector <= io.off /\ io.total > 0
    /\ pc = "io" => io.retries > 0
    /\ Done => io.sector + io.num <= NumSectors

\* What has been exchanged since the transfer was last started over came from the
\* card in the slot, as long as that card is ready: inserting another one, or
\* resetting this one, makes it not ready.
OneSource ==
    pc = "io" /\ drv.ready =>
        \A s \in AllSectors : io.sector <= s /\ s < io.off => from[s] = <<card, drv.cpart>>

DoneFromOne ==
    Done => \E w \in Where : w[1] # None /\
              \A s \in AllSectors : io.sector <= s /\ s < io.sector + io.num => from[s] = w

FrontInv == FrontTypeOK /\ DriverHonest /\ IoConsistent /\ OneSource /\ DoneFromOne

LEMMA FrontInvInit == FrontInit => FrontInv
<1> SUFFICES ASSUME FrontInit PROVE FrontInv
  OBVIOUS
<1> USE StorageSizes DEF FrontInit
<1>1. FrontTypeOK
  <2>1. /\ mode \in INIT_FAIL .. DEFAULT_SPEED /\ card \in Cards \cup {Chip, None}
    BY DEF INIT_FAIL, DEFAULT_SPEED
  <2>2. drv \in [initialized : BOOLEAN, partition : Parts, clk : BOOLEAN,
                 ready : BOOLEAN, cpart : Parts]
    BY DEF Parts
  <2>3. /\ io \in [sector : AllSectors, num : 0 .. NumSectors, off : 0 .. NumSectors,
                   total : 0 .. NumSectors, retries : Nat, first : BOOLEAN, sel : Parts,
                   then : {"caller", "mount"}]
    BY DEF NoIo, AllSectors, Parts
  <2>4. from \in [AllSectors -> Where]
    BY DEF Nowhere, Where, Parts
  <2> QED BY <2>1, <2>2, <2>3, <2>4 DEF FrontTypeOK
<1>2. DriverHonest
  BY DEF DriverHonest, Clocked, INIT_FAIL, DEFAULT_SPEED
<1>3. IoConsistent /\ OneSource /\ DoneFromOne
  BY DEF IoConsistent, Transferring, OneSource, DoneFromOne, Done
<1> QED BY <1>1, <1>2, <1>3 DEF FrontInv

----------------------------------------------------------------------------
(* What the shared parts of the actions do to it.                          *)

\* An initialisation attempt in mode m from a driver in ds leaves the front end
\* honest, if mode SD_INIT_FAIL is only tried with a driver that is down.
LEMMA ApplyOK ==
  ASSUME FrontTypeOK, kind \in {"sd", "emmc"}, UNCHANGED <<kind, flaky>>,
         NEW ds \in SUBSET Drv, \A d \in ds : Clocked(d),
         NEW m \in 0 .. U32Wrap, NEW r \in InitRetry(ds, m), Apply(r)
  PROVE  /\ mode' \in AllModes /\ drv' \in Drv /\ Clocked(drv)' /\ res' \in {0, 1}
         /\ init_done' \in BOOLEAN /\ insertion_event' \in BOOLEAN
         /\ res' = 0 => drv'.initialized
         /\ kind = "sd" /\ init_done' /\ ~drv'.initialized => mode' = INIT_FAIL
         /\ (m = INIT_FAIL => \A d \in ds : ~d.initialized) =>
               (mode' = INIT_FAIL => ~drv'.initialized)
         /\ kind = "sd" /\ (m = INIT_FAIL => ~init_done) => (res' # 0 => ~init_done')
<1>1. /\ mode' = r.mode /\ drv' = r.drv /\ res' = r.res
      /\ init_done' = IF kind = "sd" THEN r.done ELSE init_done
      /\ insertion_event' = (insertion_event \/ (kind = "sd" /\ r.res = 0))
  BY DEF Apply
<1>2. init_done \in BOOLEAN
  BY DEF FrontTypeOK
<1>3. /\ r.mode \in AllModes /\ r.drv \in Drv /\ Clocked(r.drv)
      /\ r.res \in {0, 1} /\ r.done \in BOOLEAN
      /\ r.res = 0 => r.drv.initialized /\ r.done
      /\ r.res = 1 /\ m # INIT_FAIL => ~r.drv.initialized /\ ~r.done
      /\ m = INIT_FAIL => r.res = 1 /\ r.mode = INIT_FAIL /\ r.done = init_done /\ r.drv \in ds
      /\ m # INIT_FAIL => r.mode # INIT_FAIL
  BY <1>2, RetryOK
<1>4. init_done' \in BOOLEAN /\ insertion_event' \in BOOLEAN
  BY <1>1, <1>2, <1>3
<1>5. Clocked(drv)'
  BY <1>1, <1>3 DEF Clocked
<1>6. mode' \in AllModes /\ drv' \in Drv /\ res' \in {0, 1} /\ (res' = 0 => drv'.initialized)
  BY <1>1, <1>3
<1>7. kind = "sd" /\ init_done' /\ ~drv'.initialized => mode' = INIT_FAIL
  BY <1>1, <1>3
<1>8. ASSUME m = INIT_FAIL => \A d \in ds : ~d.initialized, mode' = INIT_FAIL
      PROVE  ~drv'.initialized
  BY <1>1, <1>3, <1>8
<1>9. ASSUME kind = "sd", m = INIT_FAIL => ~init_done, res' # 0
      PROVE  ~init_done'
  BY <1>1, <1>3, <1>9
<1> QED BY <1>4, <1>5, <1>6, <1>7, <1>8, <1>9

\* The entry of sd_initialize and emmc_initialize, from a call or a recovery.
LEMMA InitializeOK ==
  ASSUME FrontInv, UNCHANGED <<kind, flaky, mounted, fs, card, io, from>>,
         NEW pw \in BOOLEAN, NEW c \in {"caller", "mount", "io"}, Initialize(pw, c),
         kind = "sd" /\ ~flaky => ~init_done \/ mode # INIT_FAIL,
         c = "io" => Transferring
  PROVE  FrontInv'
<1> USE DEF FrontInv
<1> DEFINE ds == IF pw THEN Ended(drv) ELSE {drv}
           m == IF kind = "emmc" /\ mode = INIT_FAIL THEN DEFAULT_SPEED ELSE mode
<1>0. drv \in Drv /\ Clocked(drv) /\ kind \in {"sd", "emmc"} /\ flaky \in BOOLEAN
  BY DEF FrontTypeOK, Drv, DriverHonest
<1>1. PICK r \in InitRetry(ds, m) : Apply(r)
  BY DEF Initialize
<1>2. pc' = "init" /\ init_for' = c
  BY DEF Initialize
<1>3. ds \in SUBSET Drv /\ \A d \in ds : Clocked(d)
  BY <1>0, EndedOK
<1>4. m \in 0 .. U32Wrap
  BY DEF FrontTypeOK, INIT_FAIL, DEFAULT_SPEED, U32Wrap
<1>5. kind = "sd" /\ ~flaky /\ m = INIT_FAIL => \A d \in ds : ~d.initialized
  <2> SUFFICES ASSUME kind = "sd", ~flaky, m = INIT_FAIL, NEW d \in ds PROVE ~d.initialized
    OBVIOUS
  <2>1. mode = INIT_FAIL /\ ~drv.initialized
    BY DEF DriverHonest
  <2>2. CASE pw
    BY <1>0, <2>2, EndedOK
  <2> QED BY <2>1, <2>2
<1>6. kind = "sd" /\ ~flaky /\ m = INIT_FAIL => ~init_done
  OBVIOUS
<1> HIDE DEF ds, m
<1>7. /\ mode' \in AllModes /\ drv' \in Drv /\ Clocked(drv)' /\ res' \in {0, 1}
      /\ init_done' \in BOOLEAN /\ insertion_event' \in BOOLEAN
      /\ res' = 0 => drv'.initialized
      /\ kind = "sd" /\ init_done' /\ ~drv'.initialized => mode' = INIT_FAIL
      /\ (m = INIT_FAIL => \A d \in ds : ~d.initialized) =>
            (mode' = INIT_FAIL => ~drv'.initialized)
      /\ kind = "sd" /\ (m = INIT_FAIL => ~init_done) => (res' # 0 => ~init_done')
  BY <1>0, <1>1, <1>3, <1>4, ApplyOK
<1>8. FrontTypeOK'
  BY <1>2, <1>7 DEF FrontTypeOK, AllModes, Drv, AllSectors, Where, Parts
<1>9. DriverHonest'
  BY <1>0, <1>2, <1>5, <1>6, <1>7 DEF DriverHonest
<1>10. IoConsistent'
  BY <1>2 DEF IoConsistent, Transferring, Done
<1>11. OneSource' /\ DoneFromOne'
  BY <1>2 DEF OneSource, DoneFromOne, Done
<1> QED BY <1>8, <1>9, <1>10, <1>11

\* The entry of _sdmmc_storage_readwrite: from a caller, or from f_mount.
LEMMA StartIoOK ==
  ASSUME FrontInv, UNCHANGED <<kind, flaky, mode, fe, drv, card, init_for>>,
         NEW s \in AllSectors, NEW n \in 1 .. NumSectors, NEW t \in {"caller", "mount"},
         StartIo(s, n, t)
  PROVE  FrontInv'
<1> USE StorageSizes DEF FrontInv
<1>1. Nowhere \in [AllSectors -> Where]
  BY DEF Nowhere, Where, Parts
<1>2. CASE ~drv.initialized \/ s + n > NumSectors
  <2>1. pc' = "iodone" /\ res' = 1 /\ io' = [NoIo EXCEPT !.then = t] /\ from' = Nowhere
    BY <1>2 DEF StartIo
  <2>2. io' \in [sector : AllSectors, num : 0 .. NumSectors, off : 0 .. NumSectors,
                 total : 0 .. NumSectors, retries : Nat, first : BOOLEAN, sel : Parts,
                 then : {"caller", "mount"}]
    <3>1. io' = [sector |-> 0, num |-> 0, off |-> 0, total |-> 0, retries |-> 0,
                 first |-> TRUE, sel |-> GPP, then |-> t]
      BY <2>1 DEF NoIo
    <3> QED BY <3>1 DEF AllSectors, Parts
  <2>3. FrontTypeOK'
    BY <1>1, <2>1, <2>2 DEF FrontTypeOK, fe, AllSectors, Where, Parts
  <2>4. DriverHonest'
    BY <2>1 DEF DriverHonest, Clocked, fe
  <2>5. IoConsistent' /\ OneSource' /\ DoneFromOne'
    BY <2>1 DEF IoConsistent, OneSource, DoneFromOne, Transferring, Done
  <2> QED BY <2>3, <2>4, <2>5
<1>3. CASE drv.initialized /\ s + n <= NumSectors
  <2>1. /\ pc' = "io" /\ res' = res /\ from' = Nowhere
        /\ io' = [sector |-> s, num |-> n, off |-> s, total |-> n,
                  retries |-> IoRetries, first |-> TRUE, sel |-> drv.cpart, then |-> t]
    BY <1>3 DEF StartIo, AllSectors
  <2>2. io' \in [sector : AllSectors, num : 0 .. NumSectors, off : 0 .. NumSectors,
                 total : 0 .. NumSectors, retries : Nat, first : BOOLEAN, sel : Parts,
                 then : {"caller", "mount"}]
    BY <2>1 DEF FrontTypeOK, AllSectors, Parts
  <2>3. FrontTypeOK'
    BY <1>1, <2>1, <2>2 DEF FrontTypeOK, fe, AllSectors, Where, Parts
  <2>4. DriverHonest'
    BY <1>3, <2>1 DEF DriverHonest, Clocked, fe
  <2>5. IoConsistent' /\ OneSource' /\ DoneFromOne'
    BY <1>3, <2>1 DEF IoConsistent, OneSource, DoneFromOne, Transferring, Done, AllSectors
  <2> QED BY <2>3, <2>4, <2>5
<1> QED BY <1>2, <1>3 DEF AllSectors

----------------------------------------------------------------------------
(* The actions.                                                            *)

\* One turn of the loop of sd_initialize.
LEMMA InitLoopOK ==
  ASSUME FrontInv, UNCHANGED <<kind, flaky>>, InitLoop
  PROVE  FrontInv'
<1> USE DEF FrontInv
<1>0. drv \in Drv /\ Clocked(drv) /\ kind \in {"sd", "emmc"} /\ flaky \in BOOLEAN
  BY DEF FrontTypeOK, Drv, DriverHonest
<1>1. /\ pc = "init" /\ UNCHANGED <<mounted, fs, card, io, from>>
  BY DEF InitLoop
<1>2. CASE res = 0
  <2>1. UNCHANGED <<mode, drv, init_done, insertion_event, res, init_for>> /\ pc' = "initdone"
    BY <1>2 DEF InitLoop, Leave
  <2>2. FrontTypeOK'
    BY <1>1, <2>1 DEF FrontTypeOK, AllSectors, Where, Parts
  <2>3. DriverHonest'
    BY <1>1, <2>1 DEF DriverHonest, Clocked
  <2>4. IoConsistent' /\ OneSource' /\ DoneFromOne'
    BY <1>1, <2>1 DEF IoConsistent, OneSource, DoneFromOne, Transferring, Done
  <2> QED BY <2>2, <2>3, <2>4
<1>3. ASSUME res # 0, mode' \in {mode, DEFAULT_SPEED}, mode # INIT_FAIL => mode' # INIT_FAIL,
             drv' \in Ended(drv), Leave(1), UNCHANGED <<init_done, insertion_event>>
      PROVE  FrontInv'
  <2>1. pc' = "initdone" /\ res' = 1 /\ UNCHANGED init_for
    BY <1>3 DEF Leave
  <2>2. drv' \in Drv /\ Clocked(drv') /\ (~flaky => ~drv'.initialized)
    BY <1>0, <1>3, EndedOK
  <2>3. FrontTypeOK'
    BY <1>1, <1>3, <2>1, <2>2 DEF FrontTypeOK, AllSectors, Where, Parts, Drv, INIT_FAIL, DEFAULT_SPEED
  <2>4. kind = "sd" /\ ~flaky => ~init_done
    BY <1>1, <1>3 DEF DriverHonest
  <2>5. DriverHonest'
    BY <1>0, <1>1, <1>3, <2>1, <2>2, <2>4 DEF DriverHonest, Clocked
  <2>6. IoConsistent' /\ OneSource' /\ DoneFromOne'
    BY <1>1, <2>1 DEF IoConsistent, OneSource, DoneFromOne, Transferring, Done
  <2> QED BY <2>3, <2>5, <2>6
<1>4. CASE res # 0 /\ kind = "sd" /\ card = None
  BY <1>3, <1>4 DEF InitLoop, INIT_FAIL, DEFAULT_SPEED
<1>5. CASE res # 0 /\ (kind = "emmc" \/ card # None) /\ mode = INIT_FAIL
  BY <1>0, <1>3, <1>5 DEF InitLoop
<1>6. CASE res # 0 /\ (kind = "emmc" \/ card # None) /\ mode # INIT_FAIL
  <2>1. PICK r \in InitRetry(Ended(drv), Lower(mode)) : Apply(r)
    BY <1>0, <1>6 DEF InitLoop
  <2>2. UNCHANGED <<pc, init_for>>
    BY <1>0, <1>6 DEF InitLoop
  <2>3. Ended(drv) \in SUBSET Drv /\ \A d \in Ended(drv) : Clocked(d) /\ (~flaky => ~d.initialized)
    BY <1>0, EndedOK
  <2>4. Lower(mode) \in 0 .. U32Wrap
    BY DEF FrontTypeOK, Lower, INIT_FAIL, DEFAULT_SPEED, U32Wrap
  <2>5. kind = "sd" /\ ~flaky => ~init_done
    BY <1>1, <1>6 DEF DriverHonest
  <2> DEFINE m == Lower(mode)
             ds == Ended(drv)
  <2> HIDE DEF m, ds
  <2>6. /\ mode' \in AllModes /\ drv' \in Drv /\ Clocked(drv)' /\ res' \in {0, 1}
        /\ init_done' \in BOOLEAN /\ insertion_event' \in BOOLEAN
        /\ res' = 0 => drv'.initialized
        /\ kind = "sd" /\ init_done' /\ ~drv'.initialized => mode' = INIT_FAIL
        /\ (m = INIT_FAIL => \A d \in ds : ~d.initialized) =>
              (mode' = INIT_FAIL => ~drv'.initialized)
        /\ kind = "sd" /\ (m = INIT_FAIL => ~init_done) => (res' # 0 => ~init_done')
    BY <1>0, <2>1, <2>3, <2>4, ApplyOK DEF m, ds
  <2>7. ~flaky => \A d \in ds : ~d.initialized
    BY <2>3 DEF ds
  <2>8. FrontTypeOK'
    BY <1>1, <2>2, <2>6 DEF FrontTypeOK, AllModes, Drv, AllSectors, Where, Parts
  <2>9. DriverHonest'
    BY <1>0, <1>1, <2>2, <2>5, <2>6, <2>7 DEF DriverHonest
  <2>10. IoConsistent' /\ OneSource' /\ DoneFromOne'
    BY <1>1, <2>2 DEF IoConsistent, OneSource, DoneFromOne, Transferring, Done
  <2> QED BY <2>8, <2>9, <2>10
<1> QED BY <1>0, <1>2, <1>4, <1>5, <1>6

\* A chunk of a transfer: exchanged, or failed once more.
LEMMA IoAttemptOK ==
  ASSUME FrontInv, UNCHANGED <<kind, flaky>>, IoAttempt
  PROVE  FrontInv'
<1> USE StorageSizes DEF FrontInv
<1> DEFINE IoType == [sector : AllSectors, num : 0 .. NumSectors, off : 0 .. NumSectors,
                      total : 0 .. NumSectors, retries : Nat, first : BOOLEAN, sel : Parts,
                      then : {"caller", "mount"}]
<1>0. pc = "io" /\ UNCHANGED <<mode, fe, drv, card, init_for>> /\ io \in IoType
  BY DEF IoAttempt, FrontTypeOK
<1>1. /\ io.sector + io.num <= NumSectors
      /\ io.off + io.total = io.sector + io.num
      /\ io.sector <= io.off /\ io.total > 0 /\ io.retries > 0
  BY <1>0 DEF IoConsistent, Transferring
<1>2. DriverHonest /\ drv.initialized /\ pc' \in {"io", "ioerr", "iodone"} => DriverHonest'
  BY <1>0 DEF DriverHonest, Clocked, fe
<1>3. drv.initialized
  BY <1>0 DEF DriverHonest
<1>4. CASE /\ drv.ready /\ card # None
           /\ from' = [s \in AllSectors |-> IF s \in io.off .. io.off + Chunk - 1
                                              THEN <<card, drv.cpart>> ELSE from[s]]
           /\ io' = [io EXCEPT !.off = @ + Chunk, !.total = @ - Chunk, !.retries = IoRetries]
           /\ IF io.total = Chunk THEN pc' = "iodone" /\ res' = 0 ELSE UNCHANGED <<pc, res>>
  <2>1. Chunk \in 1 .. io.total
    BY <1>0, <1>1 DEF Chunk
  <2> DEFINE k == Chunk
  <2> HIDE DEF k
  <2>2. /\ io'.off = io.off + k /\ io'.total = io.total - k /\ io'.retries = IoRetries
        /\ io'.sector = io.sector /\ io'.num = io.num /\ io' \in IoType
    <3>1. io' = [io EXCEPT !.off = io.off + k, !.total = io.total - k, !.retries = IoRetries]
      BY <1>0, <1>4 DEF k
    <3>2. io.off + k \in 0 .. NumSectors /\ io.total - k \in 0 .. NumSectors
      BY <1>0, <1>1, <2>1 DEF k, AllSectors
    <3> QED BY <1>0, <3>1, <3>2
  <2>3. <<card, drv.cpart>> \in Where
    BY DEF FrontTypeOK, Where
  <2>4. from' \in [AllSectors -> Where]
    BY <1>4, <2>3 DEF FrontTypeOK
  <2>5. /\ pc' \in {"io", "iodone"} /\ res' \in {0, 1}
        /\ pc' = "io" => io.total # k
        /\ pc' = "iodone" => io.total = k
    BY <1>0, <1>4 DEF FrontTypeOK, k
  <2>6. FrontTypeOK'
    BY <1>0, <2>2, <2>4, <2>5 DEF FrontTypeOK, fe, AllSectors, Where, Parts
  <2>7. IoConsistent'
    BY <1>0, <1>1, <2>1, <2>2, <2>5 DEF IoConsistent, Transferring, Done, AllSectors, k
  <2>8. \A s \in AllSectors : io.sector <= s /\ s < io.off + k => from'[s] = <<card, drv.cpart>>
    <3> SUFFICES ASSUME NEW s \in AllSectors, io.sector <= s, s < io.off + k
                 PROVE  from'[s] = <<card, drv.cpart>>
      OBVIOUS
    <3>1. CASE s < io.off
      <4>1. from[s] = <<card, drv.cpart>>
        BY <1>0, <1>4, <3>1 DEF OneSource
      <4> QED BY <1>4, <4>1
    <3>2. CASE s >= io.off
      <4>1. s \in io.off .. io.off + k - 1
        <5>1. PICK a \in Nat, c \in Nat : a = io.off /\ c = k
          BY <1>0, <2>1 DEF k
        <5>2. s \in Nat /\ s >= a /\ s < a + c
          BY <3>2, <5>1 DEF AllSectors
        <5>3. s \in a .. a + c - 1
          BY <5>2
        <5> QED BY <5>1, <5>3
      <4> QED BY <1>4, <4>1 DEF k
    <3> QED BY <1>0, <3>1, <3>2 DEF AllSectors
  <2>9. OneSource'
    BY <1>0, <2>2, <2>8 DEF OneSource, AllSectors
  <2>10. DoneFromOne'
    <3> SUFFICES ASSUME Done' PROVE
          \E w \in Where : w[1] # None /\
             \A s \in AllSectors : io.sector <= s /\ s < io.sector + io.num => from'[s] = w
      BY <2>2 DEF DoneFromOne, AllSectors, Where, Parts
    <3>1. io.off + k = io.sector + io.num
      BY <1>0, <1>1, <2>1, <2>5 DEF Done, k
    <3>2. <<card, drv.cpart>>[1] # None
      BY <1>4
    <3> QED BY <2>3, <2>8, <3>1, <3>2
  <2> QED BY <1>2, <1>3, <2>5, <2>6, <2>7, <2>9, <2>10
<1>5. CASE /\ io' = [io EXCEPT !.retries = @ - 1]
           /\ pc' = IF io.retries = 1 THEN "ioerr" ELSE pc
           /\ UNCHANGED <<res, from>>
  <2>1. io' \in IoType /\ io'.retries = io.retries - 1 /\ io'.off = io.off
        /\ io'.total = io.total /\ io'.sector = io.sector /\ io'.num = io.num
    BY <1>0, <1>1, <1>5
  <2>2. pc' \in {"io", "ioerr"} /\ (pc' = "io" => io.retries # 1)
    BY <1>0, <1>5
  <2>3. FrontTypeOK'
    BY <1>0, <1>5, <2>1, <2>2 DEF FrontTypeOK, fe, AllSectors, Where, Parts
  <2>4. IoConsistent'
    BY <1>0, <1>1, <2>1, <2>2 DEF IoConsistent, Transferring, Done
  <2>5. OneSource'
    BY <1>0, <1>5, <2>1, <2>2 DEF OneSource, AllSectors
  <2>6. DoneFromOne'
    BY <2>2 DEF DoneFromOne, Done
  <2> QED BY <1>2, <1>3, <2>2, <2>3, <2>4, <2>5, <2>6
<1> QED BY <1>4, <1>5 DEF IoAttempt

\* A transfer that starts over after a successful recovery.
LEMMA RestartOK ==
  ASSUME FrontTypeOK, Transferring, IoConsistent, io' = Restarted
  PROVE  /\ io' \in [sector : AllSectors, num : 0 .. NumSectors, off : 0 .. NumSectors,
                      total : 0 .. NumSectors, retries : Nat, first : BOOLEAN, sel : Parts,
                      then : {"caller", "mount"}]
         /\ io'.sector = io.sector /\ io'.num = io.num /\ io'.off = io.sector
         /\ io'.total = io.num /\ io'.retries = ReinitTries
         /\ io.num > 0 /\ io.sector + io.num <= NumSectors
<1>1. io \in [sector : AllSectors, num : 0 .. NumSectors, off : 0 .. NumSectors,
              total : 0 .. NumSectors, retries : Nat, first : BOOLEAN, sel : Parts,
              then : {"caller", "mount"}]
  BY DEF FrontTypeOK
<1>2. /\ io.sector \in 0 .. NumSectors
      /\ io.num > 0 /\ io.sector + io.num <= NumSectors
  BY <1>1, StorageSizes DEF IoConsistent, AllSectors
<1>3. io' = [io EXCEPT !.off = io.sector, !.total = io.num, !.retries = ReinitTries,
                       !.first = FALSE]
  BY DEF Restarted
<1>4. io.sector \in 0 .. NumSectors /\ io.num \in 0 .. NumSectors /\ ReinitTries \in Nat
  BY <1>1, <1>2, StorageSizes
<1>5. io' \in [sector : AllSectors, num : 0 .. NumSectors, off : 0 .. NumSectors,
               total : 0 .. NumSectors, retries : Nat, first : BOOLEAN, sel : Parts,
               then : {"caller", "mount"}]
  BY <1>1, <1>3, <1>4
<1>6. /\ io'.sector = io.sector /\ io'.num = io.num /\ io'.off = io.sector
      /\ io'.total = io.num /\ io'.retries = ReinitTries
  BY <1>1, <1>3
<1> QED BY <1>2, <1>5, <1>6

LEMMA IoAfterInitOK ==
  ASSUME FrontInv, UNCHANGED <<kind, flaky>>, IoAfterInit
  PROVE  FrontInv'
<1> USE StorageSizes DEF FrontInv
<1>0. /\ pc = "initdone" /\ init_for = "io"
      /\ UNCHANGED <<mode, fe, drv, card, init_for, res, from>>
  BY DEF IoAfterInit
<1>1. Transferring
  BY <1>0 DEF Transferring
<1>2. CASE res = 0
  <2>1. pc' = "io" /\ io' = Restarted
    BY <1>2 DEF IoAfterInit
  <2>2. /\ io' \in [sector : AllSectors, num : 0 .. NumSectors, off : 0 .. NumSectors,
                     total : 0 .. NumSectors, retries : Nat, first : BOOLEAN, sel : Parts,
                     then : {"caller", "mount"}]
        /\ io'.sector = io.sector /\ io'.num = io.num /\ io'.off = io.sector
        /\ io'.total = io.num /\ io'.retries = ReinitTries
        /\ io.num > 0 /\ io.sector + io.num <= NumSectors
    BY <1>1, <2>1, RestartOK
  <2>3. FrontTypeOK'
    BY <1>0, <2>1, <2>2 DEF FrontTypeOK, fe, AllSectors, Where, Parts
  <2>4. DriverHonest'
    BY <1>0, <1>2, <2>1 DEF DriverHonest, Clocked, fe
  <2>5. IoConsistent'
    BY <2>1, <2>2 DEF IoConsistent, Transferring, Done, FrontTypeOK, AllSectors
  <2>6. OneSource' /\ DoneFromOne'
    BY <2>1, <2>2 DEF OneSource, DoneFromOne, Done, FrontTypeOK, AllSectors
  <2> QED BY <2>3, <2>4, <2>5, <2>6
<1>3. CASE res # 0
  <2>1. pc' = "iodone" /\ UNCHANGED io
    BY <1>3 DEF IoAfterInit
  <2>2. FrontTypeOK'
    BY <1>0, <2>1 DEF FrontTypeOK, fe, AllSectors, Where, Parts
  <2>3. DriverHonest'
    BY <1>0, <2>1 DEF DriverHonest, Clocked, fe
  <2>4. IoConsistent' /\ OneSource' /\ DoneFromOne'
    BY <1>0, <1>3, <2>1 DEF IoConsistent, OneSource, DoneFromOne, Transferring, Done
  <2> QED BY <2>2, <2>3, <2>4
<1> QED BY <1>2, <1>3

\* A later recovery: one attempt at the next lower mode.
LEMMA IoReinitOK ==
  ASSUME FrontInv, UNCHANGED <<kind, flaky>>, IoReinit
  PROVE  FrontInv'
<1> USE StorageSizes DEF FrontInv
<1>0. drv \in Drv /\ Clocked(drv) /\ kind \in {"sd", "emmc"} /\ flaky \in BOOLEAN
  BY DEF FrontTypeOK, Drv, DriverHonest
<1>1. pc = "ioerr" /\ UNCHANGED <<mounted, fs, card, init_for, from>>
  BY DEF IoReinit
<1>2. PICK r \in InitRetry(Ended(drv), Lower(mode)) :
         /\ Apply(r)
         /\ IF r.res = 0 THEN pc' = "io" /\ io' = Restarted
                         ELSE pc' = "iodone" /\ UNCHANGED io
  BY DEF IoReinit
<1>3. Ended(drv) \in SUBSET Drv /\ \A d \in Ended(drv) : Clocked(d) /\ (~flaky => ~d.initialized)
  BY <1>0, EndedOK
<1>4. Lower(mode) \in 0 .. U32Wrap
  BY DEF FrontTypeOK, Lower, INIT_FAIL, DEFAULT_SPEED, U32Wrap
<1> DEFINE m == Lower(mode)
           ds == Ended(drv)
<1> HIDE DEF m, ds
<1>5. /\ mode' \in AllModes /\ drv' \in Drv /\ Clocked(drv)' /\ res' \in {0, 1}
      /\ init_done' \in BOOLEAN /\ insertion_event' \in BOOLEAN
      /\ res' = 0 => drv'.initialized
      /\ kind = "sd" /\ init_done' /\ ~drv'.initialized => mode' = INIT_FAIL
      /\ (m = INIT_FAIL => \A d \in ds : ~d.initialized) =>
            (mode' = INIT_FAIL => ~drv'.initialized)
      /\ kind = "sd" /\ (m = INIT_FAIL => ~init_done) => (res' # 0 => ~init_done')
  BY <1>0, <1>2, <1>3, <1>4, ApplyOK DEF m, ds
<1>6. ~flaky => \A d \in ds : ~d.initialized
  BY <1>3 DEF ds
<1>7. res' = r.res
  BY <1>2 DEF Apply
<1>8. CASE r.res = 0
  <2>1. pc' = "io" /\ io' = Restarted
    BY <1>2, <1>8
  <2>2. /\ io' \in [sector : AllSectors, num : 0 .. NumSectors, off : 0 .. NumSectors,
                     total : 0 .. NumSectors, retries : Nat, first : BOOLEAN, sel : Parts,
                     then : {"caller", "mount"}]
        /\ io'.sector = io.sector /\ io'.num = io.num /\ io'.off = io.sector
        /\ io'.total = io.num /\ io'.retries = ReinitTries
        /\ io.num > 0 /\ io.sector + io.num <= NumSectors
    BY <1>1, <2>1, RestartOK DEF Transferring
  <2>3. FrontTypeOK'
    BY <1>1, <1>5, <2>1, <2>2 DEF FrontTypeOK, AllModes, Drv, AllSectors, Where, Parts
  <2>4. DriverHonest'
    BY <1>0, <1>5, <1>6, <1>7, <1>8, <2>1 DEF DriverHonest
  <2>5. IoConsistent'
    BY <2>1, <2>2 DEF IoConsistent, Transferring, Done, FrontTypeOK, AllSectors
  <2>6. OneSource' /\ DoneFromOne'
    BY <2>1, <2>2 DEF OneSource, DoneFromOne, Done, FrontTypeOK, AllSectors
  <2> QED BY <2>3, <2>4, <2>5, <2>6
<1>9. CASE r.res # 0
  <2>1. pc' = "iodone" /\ UNCHANGED io
    BY <1>2, <1>9
  <2>2. FrontTypeOK'
    BY <1>1, <1>5, <2>1 DEF FrontTypeOK, AllModes, Drv, AllSectors, Where, Parts
  <2>3. DriverHonest'
    BY <1>0, <1>5, <1>6, <2>1 DEF DriverHonest
  <2>4. IoConsistent' /\ OneSource' /\ DoneFromOne'
    BY <1>7, <1>9, <2>1 DEF IoConsistent, OneSource, DoneFromOne, Transferring, Done
  <2> QED BY <2>2, <2>3, <2>4
<1> QED BY <1>8, <1>9

\* The steps that only return, mount or unmount: the driver keeps what it has,
\* unless it is shut down.
LEMMA QuietOK ==
  ASSUME FrontInv, UNCHANGED <<kind, flaky>>, pc' = "idle",
         mode' \in AllModes, init_done' \in BOOLEAN, insertion_event' \in BOOLEAN,
         mounted' \in BOOLEAN, fs' \in Cards \cup {None}, UNCHANGED <<card, init_for, from>>,
         res' \in {0, 1}, io' \in {io, NoIo}, drv' \in Drv, Clocked(drv)',
         kind = "sd" /\ ~flaky /\ init_done' /\ ~drv'.initialized => mode' = INIT_FAIL,
         kind = "sd" /\ ~flaky /\ mode' = INIT_FAIL => ~drv'.initialized
  PROVE  FrontInv'
<1> USE StorageSizes DEF FrontInv
<1>1. io' \in [sector : AllSectors, num : 0 .. NumSectors, off : 0 .. NumSectors,
               total : 0 .. NumSectors, retries : Nat, first : BOOLEAN, sel : Parts,
               then : {"caller", "mount"}]
  <2>1. CASE io' = io
    BY <2>1 DEF FrontTypeOK
  <2>2. CASE io' = NoIo
    BY <2>2 DEF NoIo, AllSectors, Parts
  <2> QED BY <2>1, <2>2
<1>2. FrontTypeOK'
  BY <1>1 DEF FrontTypeOK, AllModes, Drv, AllSectors, Where, Parts
<1>3. DriverHonest'
  BY DEF DriverHonest
<1>4. IoConsistent' /\ OneSource' /\ DoneFromOne'
  BY DEF IoConsistent, OneSource, DoneFromOne, Transferring, Done
<1> QED BY <1>2, <1>3, <1>4

\* Only the SD front end mounts, and only SD cards are ever in its slot.
SdSide ==
    /\ kind = "sd" => card \in Cards \cup {None}
    /\ kind = "sd" => \A s \in AllSectors : from[s][1] \in Cards \cup {None}
    /\ init_for = "mount" => kind = "sd"
    /\ io.then = "mount" => kind = "sd"

LEMMA SdSideInit == FrontInit => SdSide
  BY DEF FrontInit, SdSide, NoIo, Nowhere

LEMMA SdSideStep == SdSide /\ FrontTypeOK /\ [FrontNext]_frontVars => SdSide'
<1> SUFFICES ASSUME SdSide, FrontTypeOK, [FrontNext]_frontVars PROVE SdSide'
  OBVIOUS
<1> USE DEF SdSide
<1>1. ASSUME UNCHANGED <<kind, card, from, io>>, init_for' = "mount" => kind = "sd"
      PROVE  SdSide'
  BY <1>1 DEF AllSectors
<1>2. ASSUME UNCHANGED <<kind, card, init_for>>, NEW x, NEW n,
             NEW t, StartIo(x, n, t), t = "mount" => kind = "sd"
      PROVE  SdSide'
  <2>1. from' = Nowhere
    BY <1>2 DEF StartIo
  <2>2. io'.then = t
    BY <1>2 DEF StartIo, NoIo
  <2> QED BY <1>2, <2>1, <2>2 DEF Nowhere, AllSectors
<1>3. ASSUME UNCHANGED <<kind, card, init_for, from>>, io' \in {NoIo, io, Restarted}
      PROVE  SdSide'
  <2>1. io'.then \in {"caller", io.then}
    <3>1. NoIo.then = "caller"
      BY DEF NoIo
    <3>2. Restarted.then = io.then
      BY DEF Restarted, FrontTypeOK
    <3> QED BY <1>3, <3>1, <3>2
  <2> QED BY <1>3, <2>1 DEF AllSectors
<1>4. CASE FrontNext
  <2>0. UNCHANGED <<kind, flaky>>
    BY <1>4 DEF FrontNext
  <2>1. CASE InitLoop
    <3>1. UNCHANGED <<card, from, io, init_for>>
      BY <2>1 DEF InitLoop, Leave
    <3> QED BY <1>1, <2>0, <3>1
  <2>2. CASE sd_initialize
    <3>1. UNCHANGED <<card, from, io>> /\ init_for' = "caller"
      BY <2>2 DEF sd_initialize, Initialize
    <3> QED BY <1>1, <2>0, <3>1
  <2>3. CASE sd_mount
    <3>1. kind = "sd" /\ UNCHANGED card
      BY <2>3 DEF sd_mount
    <3>2. CASE FMount /\ UNCHANGED init_for
      BY <1>2, <2>0, <3>1, <3>2 DEF FMount
    <3>3. CASE UNCHANGED <<from, io>>
      BY <1>1, <2>0, <3>1, <3>3
    <3> QED BY <2>3, <3>2, <3>3 DEF sd_mount
  <2>4. CASE MountAfterInit
    <3>1. kind = "sd" /\ UNCHANGED <<card, init_for>>
      BY <2>4 DEF MountAfterInit
    <3>2. CASE FMount
      BY <1>2, <2>0, <3>1, <3>2 DEF FMount
    <3>3. CASE UNCHANGED <<from, io>>
      BY <1>1, <2>0, <3>1, <3>3
    <3> QED BY <2>4, <3>2, <3>3 DEF MountAfterInit
  <2>5. ASSUME NEW d, _sd_deinit(d) PROVE SdSide'
    BY <1>1, <2>0, <2>5 DEF _sd_deinit
  <2>6. ASSUME NEW q, emmc_set_partition(q) PROVE SdSide'
    BY <1>1, <2>0, <2>6 DEF emmc_set_partition
  <2>7. CASE emmc_end \/ InitReturns
    BY <1>1, <2>0, <2>7 DEF emmc_end, InitReturns
  <2>8. ASSUME NEW x, NEW n, sdmmc_storage_readwrite(x, n) PROVE SdSide'
    BY <1>2, <2>0, <2>8 DEF sdmmc_storage_readwrite
  <2>9. CASE IoAttempt
    <3>1. UNCHANGED <<card, init_for>> /\ io'.then = io.then
      BY <2>9 DEF IoAttempt, FrontTypeOK
    <3>2. \A x \in AllSectors : from'[x] \in {from[x], <<card, drv.cpart>>}
      BY <2>9 DEF IoAttempt
    <3>3. \A x \in AllSectors : from'[x][1] \in {from[x][1], card}
      BY <3>2
    <3> QED BY <2>0, <3>1, <3>3 DEF AllSectors
  <2>10. CASE IoFirstReinit
    <3>1. UNCHANGED <<card, from, io>> /\ init_for' = "io"
      BY <2>10 DEF IoFirstReinit, Initialize
    <3> QED BY <1>1, <2>0, <3>1
  <2>11. CASE MountReturns \/ IoReturns \/ IoAfterInit
    <3>1. UNCHANGED <<card, init_for, from>> /\ io' \in {NoIo, io, Restarted}
      BY <2>11 DEF MountReturns, IoReturns, IoAfterInit
    <3> QED BY <1>3, <2>0, <3>1
  <2>12. CASE IoReinit
    <3>1. UNCHANGED <<card, init_for, from>> /\ io' \in {NoIo, io, Restarted}
      BY <2>12 DEF IoReinit
    <3> QED BY <1>3, <2>0, <3>1
  <2>13. ASSUME NEW c \in Cards \cup {None}, Swap(c) PROVE SdSide'
    BY <2>0, <2>13 DEF Swap, AllSectors
  <2> QED
    BY <1>4, <2>1, <2>2, <2>3, <2>4, <2>5, <2>6, <2>7, <2>8, <2>9, <2>10, <2>11, <2>12, <2>13
    DEF FrontNext, Call, CallStep, User
<1>5. CASE UNCHANGED frontVars
  BY <1>1, <1>5 DEF frontVars
<1> QED BY <1>4, <1>5

\* Every step keeps the invariant.
LEMMA FrontInvStep == FrontInv /\ SdSide /\ [FrontNext]_frontVars => FrontInv'
<1> SUFFICES ASSUME FrontInv, SdSide, [FrontNext]_frontVars PROVE FrontInv'
  OBVIOUS
<1> USE StorageSizes
<1>0. /\ drv \in Drv /\ Clocked(drv) /\ kind \in {"sd", "emmc"} /\ flaky \in BOOLEAN
      /\ mode \in AllModes /\ init_done \in BOOLEAN /\ insertion_event \in BOOLEAN
      /\ mounted \in BOOLEAN /\ fs \in Cards \cup {None} /\ res \in {0, 1}
  BY DEF FrontInv, FrontTypeOK, Drv, DriverHonest, AllModes
<1>1. /\ kind = "sd" /\ ~flaky /\ init_done /\ ~drv.initialized => mode = INIT_FAIL
      /\ kind = "sd" /\ ~flaky /\ mode = INIT_FAIL => ~drv.initialized
  BY DEF FrontInv, DriverHonest
<1>2. ASSUME FrontNext PROVE FrontInv'
  <2>0. UNCHANGED <<kind, flaky>>
    BY <1>2 DEF FrontNext
  <2>1. CASE InitLoop
    BY <2>0, <2>1, InitLoopOK
  <2>2. CASE sd_initialize
    <3>1. Initialize(FALSE, "caller") /\ UNCHANGED <<mounted, fs, card, io, from>>
      BY <2>2 DEF sd_initialize
    <3>2. kind = "sd" => ~init_done
      BY <2>2 DEF sd_initialize
    <3> QED BY <2>0, <3>1, <3>2, InitializeOK
  <2>3. CASE InitReturns
    <3>1. pc' = "idle" /\ UNCHANGED <<mode, fe, drv, card, init_for, res, io, from>>
      BY <2>3 DEF InitReturns
    <3> QED BY <1>0, <1>1, <2>0, <3>1, QuietOK DEF fe, Clocked
  <2>4. CASE sd_mount
    <3>1. kind = "sd" /\ pc = "idle" /\ UNCHANGED <<mounted, fs, card>>
      BY <2>4 DEF sd_mount
    <3>2. CASE res' = 0 /\ UNCHANGED <<mode, init_done, insertion_event, drv, pc, init_for, io, from>>
      BY <1>0, <1>1, <2>0, <3>1, <3>2, QuietOK DEF Clocked
    <3>3. CASE ~init_done /\ Initialize(FALSE, "mount") /\ UNCHANGED <<io, from>>
      BY <2>0, <3>1, <3>3, InitializeOK
    <3>4. CASE FMount /\ UNCHANGED <<mode, init_done, insertion_event, drv, init_for>>
      <4>1. StartIo(0, 1, "mount") /\ 0 \in AllSectors /\ 1 \in 1 .. NumSectors
        BY <3>4 DEF FMount, AllSectors
      <4> QED BY <2>0, <3>1, <3>4, <4>1, StartIoOK DEF fe
    <3> QED BY <2>4, <3>2, <3>3, <3>4 DEF sd_mount
  <2>5. CASE MountAfterInit
    <3>1. UNCHANGED <<mode, fe, drv, card, init_for>>
      BY <2>5 DEF MountAfterInit
    <3>2. CASE FMount
      <4>1. StartIo(0, 1, "mount") /\ 0 \in AllSectors /\ 1 \in 1 .. NumSectors
        BY <3>2 DEF FMount, AllSectors
      <4> QED BY <2>0, <3>1, <4>1, StartIoOK
    <3>3. CASE pc' = "idle" /\ UNCHANGED <<io, from, res>>
      BY <1>0, <1>1, <2>0, <3>1, <3>3, QuietOK DEF fe, Clocked
    <3> QED BY <2>5, <3>2, <3>3 DEF MountAfterInit
  <2>6. CASE MountReturns
    <3>1. /\ pc' = "idle" /\ io' = NoIo
          /\ UNCHANGED <<mode, init_done, insertion_event, drv, card, init_for, from>>
      BY <2>6 DEF MountReturns
    <3>2. mounted' \in BOOLEAN /\ res' \in {0, 1}
      BY <1>0, <2>6 DEF MountReturns
    <3>3. fs' \in Cards \cup {None}
      <4>1. kind = "sd" /\ from[0][1] \in Cards \cup {None}
        BY <2>6 DEF MountReturns, SdSide, AllSectors
      <4> QED BY <1>0, <2>6, <4>1 DEF MountReturns
    <3> QED BY <1>0, <1>1, <2>0, <3>1, <3>2, <3>3, QuietOK DEF Clocked
  <2>7. ASSUME NEW deinit \in BOOLEAN, _sd_deinit(deinit) PROVE FrontInv'
    <3>1. /\ kind = "sd" /\ pc = "idle"
          /\ mode' = IF deinit /\ mode = INIT_FAIL THEN DEFAULT_SPEED ELSE mode
          /\ insertion_event' = (insertion_event /\ ~deinit)
          /\ mounted' = FALSE /\ fs' = None
          /\ UNCHANGED <<card, pc, init_for, res, io, from>>
      BY <2>7 DEF _sd_deinit
    <3>2. insertion_event' \in BOOLEAN /\ mode' \in AllModes
      BY <1>0, <3>1 DEF AllModes, INIT_FAIL, DEFAULT_SPEED
    <3>3. CASE deinit /\ init_done
      <4>1. drv' \in Ended(drv) /\ init_done' = FALSE
        BY <2>7, <3>3 DEF _sd_deinit
      <4>2. drv' \in Drv /\ Clocked(drv') /\ (~flaky => ~drv'.initialized)
        BY <1>0, <4>1, EndedOK
      <4>3. Clocked(drv)'
        BY <4>2 DEF Clocked
      <4> QED BY <1>0, <2>0, <3>1, <3>2, <4>1, <4>2, <4>3, QuietOK
    <3>4. CASE ~(deinit /\ init_done)
      <4>1. UNCHANGED <<drv, init_done>>
        BY <2>7, <3>4 DEF _sd_deinit
      <4>2. init_done => mode' = mode
        BY <3>1, <3>4
      <4>3. mode' = INIT_FAIL => mode = INIT_FAIL
        BY <3>1 DEF INIT_FAIL, DEFAULT_SPEED
      <4>4. Clocked(drv)'
        BY <1>0, <4>1 DEF Clocked
      <4> QED BY <1>0, <1>1, <2>0, <3>1, <3>2, <4>1, <4>2, <4>3, <4>4, QuietOK
    <3> QED BY <3>3, <3>4
  <2>8. CASE emmc_end
    <3>1. /\ kind = "emmc" /\ pc = "idle" /\ drv' \in Ended(drv)
          /\ UNCHANGED <<mode, fe, card, pc, init_for, res, io, from>>
      BY <2>8 DEF emmc_end
    <3>2. drv' \in Drv /\ Clocked(drv')
      BY <1>0, <3>1, EndedOK
    <3>3. Clocked(drv)'
      BY <3>2 DEF Clocked
    <3> QED BY <1>0, <2>0, <3>1, <3>2, <3>3, QuietOK DEF fe
  <2>9. ASSUME NEW p \in Parts, emmc_set_partition(p) PROVE FrontInv'
    <3>1. /\ kind = "emmc" /\ pc = "idle" /\ res' \in {0, 1}
          /\ UNCHANGED <<mode, fe, card, pc, init_for, io, from>>
      BY <2>9 DEF emmc_set_partition
    <3>2. \/ drv' = [drv EXCEPT !.cpart = p, !.partition = p]
          \/ drv' = [drv EXCEPT !.cpart = p]
          \/ drv' = drv
      BY <2>9 DEF emmc_set_partition
    <3>3. drv' \in Drv /\ Clocked(drv)'
      BY <1>0, <3>2 DEF Drv, Clocked
    <3> QED BY <1>0, <2>0, <3>1, <3>3, QuietOK DEF fe
  <2>10. ASSUME NEW s \in AllSectors, NEW n \in 1 .. NumSectors, sdmmc_storage_readwrite(s, n)
         PROVE  FrontInv'
    BY <2>0, <2>10, StartIoOK DEF sdmmc_storage_readwrite
  <2>11. CASE IoAttempt
    BY <2>0, <2>11, IoAttemptOK
  <2>12. CASE IoFirstReinit
    <3>1. pc = "ioerr" /\ Initialize(TRUE, "io") /\ UNCHANGED <<mounted, fs, card, io, from>>
      BY <2>12 DEF IoFirstReinit
    <3>2. kind = "sd" /\ ~flaky => mode # INIT_FAIL
      BY <1>1, <3>1 DEF FrontInv, DriverHonest
    <3>3. Transferring
      BY <3>1 DEF Transferring
    <3> QED BY <2>0, <3>1, <3>2, <3>3, InitializeOK
  <2>13. CASE IoAfterInit
    BY <2>0, <2>13, IoAfterInitOK
  <2>14. CASE IoReinit
    BY <2>0, <2>14, IoReinitOK
  <2>15. CASE IoReturns
    <3>1. pc' = "idle" /\ io' = NoIo /\ UNCHANGED <<mode, fe, drv, card, init_for, res, from>>
      BY <2>15 DEF IoReturns
    <3> QED BY <1>0, <1>1, <2>0, <3>1, QuietOK DEF fe, Clocked
  <2>16. ASSUME NEW c \in Cards \cup {None}, Swap(c) PROVE FrontInv'
    <3>1. /\ kind = "sd" /\ card' = c /\ drv' = [drv EXCEPT !.ready = FALSE]
          /\ UNCHANGED <<mode, fe, pc, init_for, res, io, from>>
      BY <2>16 DEF Swap
    <3>2. /\ drv' \in Drv /\ drv'.initialized = drv.initialized /\ ~drv'.ready
          /\ drv'.clk = drv.clk
      BY <1>0, <3>1 DEF Drv
    <3>3. FrontTypeOK'
      BY <3>1, <3>2 DEF FrontInv, FrontTypeOK, fe, Drv, AllSectors, Where, Parts
    <3>4. DriverHonest'
      BY <2>0, <3>1, <3>2 DEF FrontInv, DriverHonest, Clocked, fe
    <3>5. IoConsistent' /\ OneSource'
      BY <3>1, <3>2 DEF FrontInv, IoConsistent, OneSource, Transferring, Done
    <3>6. DoneFromOne'
      BY <3>1 DEF FrontInv, DoneFromOne, Done, Where
    <3> QED BY <3>3, <3>4, <3>5, <3>6 DEF FrontInv
  <2> QED
    BY <1>2, <2>1, <2>2, <2>3, <2>4, <2>5, <2>6, <2>7, <2>8, <2>9, <2>10, <2>11, <2>12,
       <2>13, <2>14, <2>15, <2>16
    DEF FrontNext, Call, CallStep, User
<1>3. CASE UNCHANGED frontVars
  <2>1. FrontTypeOK' /\ DriverHonest'
    BY <1>3 DEF FrontInv, FrontTypeOK, DriverHonest, Clocked, frontVars, fe, AllSectors, Where, Parts
  <2>2. IoConsistent' /\ OneSource' /\ DoneFromOne'
    BY <1>3 DEF FrontInv, IoConsistent, OneSource, DoneFromOne, Transferring, Done, frontVars,
                fe, AllSectors, Where, Parts
  <2> QED BY <2>1, <2>2 DEF FrontInv
<1> QED BY <1>2, <1>3

----------------------------------------------------------------------------
(* The theorems.                                                           *)

LEMMA FrontAlwaysInv == FrontSpec => [](FrontInv /\ SdSide)
<1>1. FrontInit => FrontInv /\ SdSide
  BY FrontInvInit, SdSideInit
<1>2. (FrontInv /\ SdSide) /\ [FrontNext]_frontVars => (FrontInv /\ SdSide)'
  <2>1. FrontInv => FrontTypeOK
    BY DEF FrontInv
  <2> QED BY <2>1, FrontInvStep, SdSideStep
<1> QED BY <1>1, <1>2, PTL DEF FrontSpec

\* A transfer of _sdmmc_storage_readwrite that reports success exchanged every
\* sector with one card and one hardware partition, wherever the card was swapped
\* or the driver recovered in between.
THEOREM TransferNeverSplit == FrontSpec => []TransferNotSplit
<1>1. FrontInv => TransferNotSplit
  <2> SUFFICES ASSUME FrontInv, Done
               PROVE  \E w \in Where : w[1] # None /\
                        \A s \in io.sector .. io.sector + io.num - 1 : from[s] = w
    BY DEF TransferNotSplit
  <2>1. PICK w \in Where : w[1] # None /\
          \A s \in AllSectors : io.sector <= s /\ s < io.sector + io.num => from[s] = w
    BY DEF FrontInv, DoneFromOne
  <2>2. /\ io.sector \in AllSectors /\ io.num \in 0 .. NumSectors
        /\ io.sector + io.num <= NumSectors
    BY DEF FrontInv, FrontTypeOK, IoConsistent
  <2>3. \A s \in io.sector .. io.sector + io.num - 1 :
           s \in AllSectors /\ io.sector <= s /\ s < io.sector + io.num
    BY <2>2, StorageSizes DEF AllSectors
  <2> QED BY <2>1, <2>3
<1> QED BY <1>1, FrontAlwaysInv, PTL

\* The mode of sd.c and emmc.c stays a mode the switch knows, and with a working
\* host sd_init_done is only wrong after a recovery ran out of modes.
THEOREM FrontAlwaysSound == FrontSpec => []FrontSound
<1>1. FrontInv => FrontSound
  BY DEF FrontInv, FrontSound, InitDoneHonest, DriverHonest
<1> QED BY <1>1, FrontAlwaysInv, PTL

----------------------------------------------------------------------------
(* SdmmcTuning                                                             *)

USE DEF INVALID_TAP

\* A scan that succeeded found a window of the required size.
WideEnough == ret = "ok" => best_size >= MinWindow

\* The inductive invariant.
TuningInv == ScanInvariant /\ WideEnough

\* The scan starts with no window and nothing found.
LEMMA InitScan == TapInit => TuningInv
  BY TuningSizes
  DEF TapInit, TuningInv, ScanInvariant, WideEnough, ScanTypes, OpenWindow, BestWindow, Taps

\* Closing a window that is not the widest so far leaves the best one alone;
\* closing a wider one puts best_tap inside it.
LEMMA CloseScan == ASSUME TuningInv, Close PROVE TuningInv'
<1> USE TuningSizes DEF Taps
<1>1. /\ i \in 0 .. NumIter - 1 /\ i' = i + 1 /\ result' = result /\ ret' = ret
      /\ result' \in [Taps -> BOOLEAN] /\ i' \in 0 .. NumIter
  BY DEF Close, TuningInv, ScanInvariant, WideEnough, ScanTypes
<1>2. tap_start' = INVALID_TAP /\ win_size' = 0
  BY DEF Close, WindowReset, TuningInv, ScanInvariant, WideEnough, OpenWindow
<1>3. OpenWindow'
  BY <1>2 DEF OpenWindow
<1>4. CASE tap_start = INVALID_TAP \/ ~(win_size > best_size)
  <2>1. best_tap' = best_tap /\ best_size' = best_size
    BY <1>4 DEF Close
  <2>2. BestWindow'
    BY <1>1, <2>1 DEF TuningInv, ScanInvariant, WideEnough, BestWindow, RunAround, Stable
  <2> QED BY <1>1, <1>2, <1>3, <2>1, <2>2 DEF TuningInv, ScanInvariant, WideEnough, ScanTypes
<1>5. CASE tap_start # INVALID_TAP /\ win_size > best_size
  <2>1. /\ tap_start \in Taps /\ tap_start < i /\ win_size = i - tap_start
        /\ Stable(tap_start, i - 1)
    BY <1>5 DEF TuningInv, ScanInvariant, WideEnough, OpenWindow, ScanTypes
  <2>2. /\ best_tap' = (tap_start + tap_end) \div 2
        /\ best_size' = win_size + iter_end
    BY <1>5 DEF Close
  <2>3. tap_start <= best_tap' /\ best_tap' <= i - 1 /\ best_tap' \in Taps
    BY <1>1, <2>1, <2>2 DEF tap_end, iter_end
  <2>4. /\ best_size' \in 0 .. NumIter /\ best_size' > best_size
        /\ (i - 1) - tap_start + 1 >= best_size' - 1
    BY <1>1, <1>5, <2>1, <2>2 DEF iter_end, TuningInv, ScanInvariant, WideEnough, ScanTypes
  <2>5. BestWindow'
    <3>1. tap_start \in Taps /\ i - 1 \in Taps
      BY <1>1, <2>1
    <3>2. \A v \in tap_start .. i - 1 : result'[v]
      BY <1>1, <2>1 DEF Stable
    <3> QED BY <2>3, <2>4, <3>1, <3>2 DEF BestWindow, RunAround, Stable
  <2>6. ret' = "ok" => best_size' >= MinWindow
    BY <1>1, <2>4 DEF TuningInv, ScanInvariant, WideEnough, ScanTypes
  <2> QED BY <1>1, <1>2, <1>3, <2>3, <2>4, <2>5, <2>6
          DEF TuningInv, ScanInvariant, WideEnough, ScanTypes
<1> QED BY <1>4, <1>5

\* Every turn of the loop keeps the invariant.
LEMMA StepScan == TuningInv /\ [TapNext]_tapVars => TuningInv'
<1> SUFFICES ASSUME TuningInv, [TapNext]_tapVars PROVE TuningInv'
  OBVIOUS
<1>1. CASE Grow
  <2> USE TuningSizes, <1>1 DEF Grow, TuningInv, ScanInvariant, WideEnough
  <2>1. ScanTypes'
    BY DEF ScanTypes, OpenWindow, iter_end, Taps
  <2>2. OpenWindow'
    BY DEF ScanTypes, OpenWindow, iter_end, Taps, Stable
  <2>3. BestWindow'
    BY DEF BestWindow, RunAround, Stable
  <2> QED BY <2>1, <2>2, <2>3
<1>2. CASE Close
  BY <1>2, CloseScan
<1>3. CASE Finish
  BY <1>3, TuningSizes
  DEF Finish, TuningInv, ScanInvariant, WideEnough, ScanTypes, OpenWindow, BestWindow, RunAround, Stable
<1>4. CASE UNCHANGED tapVars
  BY <1>4
  DEF tapVars, TuningInv, ScanInvariant, WideEnough, ScanTypes, OpenWindow, BestWindow, RunAround, Stable
<1> QED BY <1>1, <1>2, <1>3, <1>4 DEF TapNext

\* The loop invariant of the scan of _sdmmc_manual_tuning_set_tap holds
\* throughout.
THEOREM ScanIsInvariant == TapSpec => []ScanInvariant
<1>1. TuningInv => ScanInvariant
  BY DEF TuningInv
<1> QED BY <1>1, InitScan, StepScan, PTL DEF TapSpec

\* Whatever the results of the tuning iterations, a tap that
\* _sdmmc_manual_tuning_set_tap programs lies in a run of stable taps.
THEOREM ProgrammedTapIsStable == TapSpec => []TapIsStable
<1>1. TuningInv => TapIsStable
  <2> SUFFICES ASSUME TuningInv, ret = "ok" PROVE RunAround(MinWindow)
    BY DEF TapIsStable
  <2>1. best_size >= MinWindow /\ best_size # 0 /\ best_size \in Nat
    BY TuningSizes DEF TuningInv, ScanInvariant, WideEnough, ScanTypes
  <2>2. PICK lo, hi \in Taps : /\ lo <= best_tap /\ best_tap <= hi
                               /\ hi - lo + 1 >= best_size - 1
                               /\ Stable(lo, hi)
    BY <2>1 DEF TuningInv, ScanInvariant, WideEnough, BestWindow, RunAround
  <2>3. hi - lo + 1 >= MinWindow - 1
    BY <2>1, <2>2, TuningSizes DEF Taps
  <2> QED BY <2>2, <2>3 DEF RunAround
<1> QED BY <1>1, InitScan, StepScan, PTL DEF TapSpec
=============================================================================

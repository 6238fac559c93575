---------------------------- MODULE MCTrxOptions ----------------------------
(* TrxProtocol with the two optimistic options switched on for all the     *)
(* transactions, or switched off for two of them.  The configuration of    *)
(* the program does not change while it runs.                              *)
EXTENDS MCTrxProtocol

VARIABLE options

Plain == INSTANCE TrxProtocol WITH Trx <- {t1, t2}, EnableOptPreread <- FALSE, EnableOptValidation <- FALSE,
           Home <- [t \in {t1, t2} |-> Home[t]], Reads <- [t \in {t1, t2} |-> Reads[t]],
           Writes <- [t \in {t1, t2} |-> Writes[t]]

OptionsInit == options \in {"on", "off"} /\ IF options = "on" THEN Init ELSE Plain!Init
OptionsNext == UNCHANGED options /\ ((options = "on" /\ Next) \/ (options = "off" /\ Plain!Next))
OptionsSpec == OptionsInit /\ [][OptionsNext]_<<vars, options>>

(* The committed transactions are serializable in the order of their       *)
(* commit times, whether versions are read before they are committed and   *)
(* conflicts are waited for, or both lead to an abort at once.             *)
SerializableWithOptions == IF options = "on" THEN SerializableInCommitOrder ELSE Plain!SerializableInCommitOrder

(* Whatever the options: a terminated transaction leaves no uncommitted    *)
(* version behind, as the abort statement waits for the operations under   *)
(* way; no CHECK of TidStatus fails; and a validation waits only for       *)
(* transactions with a smaller commit time, without the options for none.  *)
SafeWithOptions ==
  IF options = "on"
  THEN TypeOK /\ NoOrphanVersion /\ StatusChecksHold /\ WaitsForOlder
  ELSE /\ Plain!TypeOK /\ Plain!NoOrphanVersion /\ Plain!StatusChecksHold /\ Plain!WaitsForOlder
       /\ \A w \in Worker, t \in {t1, t2} : opt[w][t] = {} /\ homo[w][t] = {}
=============================================================================

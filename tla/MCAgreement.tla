---------------------------- MODULE MCAgreement ----------------------------
(***************************************************************************)
(* What the machines of a repository end up agreeing on, for TLC: the file   *)
(* (LiveOverlay) and the public link (ShareLink).  The two share no state    *)
(* here: a behaviour follows one of them, `part`, the link under two aspects: *)
(*   links  two watchers may share the repository; kills, clones, orphans,    *)
(*   locks  one watcher shares it, the two others have adopted the share, and *)
(*          it locks and unlocks it.                                          *)
(***************************************************************************)
EXTENDS LiveOverlay, ShareLink

\* Who shares in "locks" watches, and may mint.
ASSUME SharedAssumption == 2 \in Watcher /\ MaxMinted > 0

VARIABLE part

Mishaps == spent'.kills + spent'.reclones + spent'.ends
Links ==
    /\ UNCHANGED <<config[2], session[2], todo[2], record[2]>>
    /\ Mishaps + spent'.toggles <= 3 /\ Mishaps <= 1
    /\ spent'.kills # spent.kills => todo' # todo
Locks ==
    /\ \A m \in Watcher \ {2} : todo'[m] # todo[m] => spent' = spent
    /\ Mishaps = 0 /\ spent'.toggles <= 2

\* Watcher 2 has shared the repository, and the others serve its share.
Adopted ==
    LET share == [m \in Watcher |-> IF m = 2
                    THEN [key |-> 1, role |-> "owner", at |-> 2, mirror |-> TRUE]
                    ELSE [key |-> 1, role |-> "mirror", at |-> 3, mirror |-> FALSE]]
    IN  /\ config = [m \in Watcher |-> [share |-> share[m], dormant |-> None]]
        /\ entry = [m \in Watcher |-> Declared(share[m])]
        /\ ended = [m \in Watcher |-> {}]
        /\ record = [m \in Watcher |-> [share |-> entry[m], ended |-> {}]]
        /\ session = [m \in Watcher |-> [is |-> "open", share |-> share[m]]]
        /\ todo = [m \in Watcher |-> Quiescent]
        /\ minters = <<2>>
        /\ spent = [toggles |-> 0, ends |-> 0, reclones |-> 0, kills |-> 0]

MCInit ==
    /\ part \in {"file", "links", "locks"}
    /\ Init
    /\ IF part = "locks" THEN Adopted ELSE ShareInit
MCNext ==
    /\ part' = part
    /\ \/ part = "file" /\ Next /\ UNCHANGED svars
       \/ part = "links" /\ ShareNext /\ Links /\ UNCHANGED vars
       \/ part = "locks" /\ ShareNext /\ Locks /\ UNCHANGED vars

\* The fairness of both, each where its part is followed.
Overlays == part = "file"
MCSpec ==
    /\ MCInit /\ [][MCNext]_<<part, vars, svars>>
    /\ \A d \in Device :
          /\ WF_vars(Overlays /\ PublishLocal(d))
          /\ \A e \in Device : SF_vars(Overlays /\ Accept(d, e))
          /\ WF_vars(Overlays /\ (PrepareLooks(d) \/ PrepareRestores(d) \/ ImportBundle(d)
                                     \/ ApplyLooks(d) \/ ApplyWrites(d)))
    /\ \A m \in Watcher : WF_svars(~Overlays /\ Goes(m))

\* The variables of both keep their types: an import never writes a text that its
\* snapshot does not hold, and a share never comes back to life without a config.
TypesOK == TypeOK /\ ShareTypeOK
=============================================================================

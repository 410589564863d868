----------------------------- MODULE MCContime -----------------------------
(* Small instances of Contime for TLC: two workers, ids of two types,      *)
(* events for one type and for both.  The worker of id 2 also has id 3, so *)
(* that an event can send two messages into one channel.                   *)
EXTENDS ContimeStore, ContimeInvariant, TLC

MCTargetTypes == "Renamed" :> <<"Account">> @@ "Created" :> <<"Character", "Account">>
MCIds == "Account" :> 1 @@ "Character" :> 2
MCSameWorker == "Account" :> 3 @@ "Character" :> 2
MCEvents == [variant : {"Renamed", "Created"}, ids : {MCIds}]
            \cup {[variant |-> "Created", ids |-> MCSameWorker]}
MCCorrections == {[type |-> t, id |-> MCIds[t]] : t \in {"Account", "Character"}}
MCWorkerIndex == 1 :> 1 @@ 2 :> 2 @@ 3 :> 2
=============================================================================

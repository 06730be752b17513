------------------------------- MODULE MCFeed -------------------------------
(* What readers get of the published files: the public samples, the        *)
(* uploader's snapshot and the owner's history.  The samples have a window *)
(* of five minutes, so that they leave it and holes of every length fit,   *)
(* and three cells, so that the strip is drawn both ways.  `part` says     *)
(* what is explored: the VPS alone to the last minute, the network and the *)
(* tables as well for fewer minutes, or, sharing nothing with them, the    *)
(* daemon's files read by the uploader or for the owner.                   *)
EXTENDS SampleFeed, SeriesReader

CONSTANT NetworkMinutes

VARIABLE part
mcVars == <<part, feedVars, seriesVars>>

MCInit == FeedInit /\ SeriesInit /\ part \in {"disk", "network", "snapshot", "history"}

OnDisk ==
  \/ Tick /\ (part = "network" => now < NetworkMinutes)
  \/ Collect \/ WriteHistory \/ CollectorStops
Network ==
  /\ part = "network"
  /\ Begin \/ Read \/ Send \/ TimesOut \/ Arrives \/ SendsDirectly \/ Upgrade
Page == part = "disk" /\ (ReadLatest \/ Sent)

MCNext ==
  /\ UNCHANGED part
  /\ \/ part \in {"disk", "network"} /\ (OnDisk \/ Network \/ Page) /\ UNCHANGED seriesVars
     \/ /\ part = "snapshot" /\ FilesNext
        /\ UNCHANGED <<feedVars, time, recorded, named, page>>
     \/ part = "history" /\ SeriesNext /\ UNCHANGED feedVars

MCSpec == MCInit /\ [][MCNext]_mcVars
=============================================================================

----------------------------- MODULE MCDiscovery -----------------------------
(***************************************************************************)
(* Model of Publishing, and of Discovery in it, for TLC: five feeders of   *)
(* five kinds, and options in which each category is on in some and off in *)
(* others.  The categories that have a toggle of their own are tied        *)
(* together, as are the receiver and the feeders switched on, to keep the  *)
(* number of mixtures that aborted runs leave in the broker small.         *)
(***************************************************************************)
EXTENDS Publishing

MCFeeders == {"piaware", "fr24", "planefinder", "radarbox", "adsblol"}

Station(receiver, uat, on, health, own, status) ==
    [health |-> health, nearby |-> own, status |-> status, unique |-> own,
     emergency |-> own, messages |-> ~own, receiver |-> receiver,
     enable_uat |-> uat, enabled |-> on]

AllOff == [Station("rtlsdr", TRUE, MCFeeders, FALSE, FALSE, FALSE)
              EXCEPT !.messages = FALSE]

MCOptions ==
    {Station("rtlsdr", own, MCFeeders, health, own, TRUE) :
        health, own \in BOOLEAN}
    \cup {Station("rtlsdr", FALSE, MCFeeders, TRUE, TRUE, FALSE),
          Station("uat", FALSE, {"radarbox", "adsblol"}, TRUE, FALSE, TRUE),
          Station("uat", FALSE, {}, FALSE, FALSE, FALSE),
          Station("remote", TRUE, {}, TRUE, TRUE, FALSE),
          AllOff}

MCKernel         == {"piaware", "radarbox"}
MCByteReport     == {"planefinder"}
MCMessageReport  == {"fr24"}
MCPortalAircraft == {"fr24"}
MCPortalRate     == {"planefinder"}
MCSyncCapable    == {"adsblol"}
MCMlatCapable    == {"radarbox", "adsblol"}
MCBinaryReport   == {"piaware"}

\* Every kind of source answers, or all kinds but one, or one kind, or none: a
\* feeder's states depend on its own sources only, so the feeders may share
\* their fate, and few sets of sampled feeders arise.
MCAnswers ==
    LET Kinds    == MainSources \cup FeederSources
        Of(kinds) == {s \in Sources : s[2] \in kinds}
    IN  {Of(Kinds), {}} \cup {Of(Kinds \ {k}) : k \in Kinds} \cup {Of({k}) : k \in Kinds}

=============================================================================

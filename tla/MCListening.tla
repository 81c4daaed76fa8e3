---------------------------- MODULE MCListening ----------------------------
(***************************************************************************)
(* What the Suite plays: the radio (RadioEngine), the playback of a sound  *)
(* (AudioService) and the television (LiveTv).  They have no variable,     *)
(* thread, window or lock in common, so that a behaviour of all is the     *)
(* interleaving of one of each; a behaviour here is one of the three,      *)
(* chosen in the first state.                                              *)
(***************************************************************************)
EXTENDS RadioEngine, AudioService, LiveTv

VARIABLE listening     \* "radio", "sound" or "tv"

allVars == <<vars, audioVars, tvVars, listening>>
Radio(A) == listening = "radio" /\ A /\ UNCHANGED <<audioVars, tvVars, listening>>
Sound(A) == listening = "sound" /\ A /\ UNCHANGED <<vars, tvVars, listening>>
Tv(A)    == listening = "tv" /\ A /\ UNCHANGED <<vars, audioVars, listening>>

MCInit == Init /\ AudioInit /\ TvInit /\ listening \in {"radio", "sound", "tv"}
MCNext == Radio(Next) \/ Sound(AudioNext) \/ Tv(TvNext)

\* The fairness of the modules, whose alternatives exclude each other.
UiThread == Radio(Ui) \/ Sound(AudioMessages) \/ Tv(UiTv)
Workers  == Radio(Worker) \/ Sound(\E r \in Runs : AudioWorker(r)) \/ Tv(\E i \in Plays : Loader(i))
Devices  == Radio(Render) \/ Sound(WaveOutDone) \/ Tv(MfPosts)
MCSpec ==
  /\ MCInit /\ [][MCNext]_allVars
  /\ WF_allVars(UiThread) /\ WF_allVars(Workers) /\ WF_allVars(Devices)
=============================================================================

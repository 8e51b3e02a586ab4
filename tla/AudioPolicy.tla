----------------------------- MODULE AudioPolicy -----------------------------
(***************************************************************************)
(* What a listening session does with a window of audio                    *)
(* (services/audio_classifier.py): the features of the window are weighed  *)
(* against each other and against the vote of an optional voice-activity   *)
(* detector, and the class that comes out is folded into a rolling policy  *)
(* that says whether the window is kept.                                   *)
(*                                                                         *)
(* The unit of time is the window.  A feature is what _ramp() makes of a   *)
(* measurement, in sixths; PCM, frames and the model are left out.  The    *)
(* policy also asks for a mean confidence of 0.55 before music is dropped: *)
(* music has at least 0.45 + 0.5 / 2 and singing 0.4 + 0.5 / 2, so that    *)
(* test never fails and confidences are left out.                          *)
(***************************************************************************)
EXTENDS Integers, Sequences, FiniteSets

CONSTANTS
    Settings,     \* the configurations considered
    Levels,       \* bound of the model: the levels of a feature, of 0 .. 6
    SilenceEnd,   \* RADIO_SILENCE_END_SECONDS, in windows
    MusicDiscard, \* RADIO_PURE_MUSIC_DISCARD_SECONDS
    JingleMax,    \* RADIO_JINGLE_MAX_SECONDS
    Adjacency,    \* RADIO_JINGLE_ADJACENCY_SECONDS
    MaxWindows    \* bound of the model: windows of one connection

ASSUME PolicyAssumption ==
    /\ Settings \subseteq [backend : {"vad_energy", "passthrough"}, overMusic : BOOLEAN,
                           uncertain : BOOLEAN, jingles : BOOLEAN, singing : BOOLEAN]
    /\ Levels \subseteq 0 .. 6
    /\ {SilenceEnd, MusicDiscard, JingleMax, Adjacency} \subseteq Nat \ {0}
    /\ MaxWindows \in Nat

VARIABLES
    settings,  \* the configuration of this process
    failures,  \* SileroVad._failures; MaxFailures: no detector (any more)
    run,       \* _run: the class of the last windows and how many they are
    speechEnd, \* _last_speech_end_ms, or Never
    position,  \* _position_ms
    heard,     \* history: the classes of the windows of this connection
    last       \* history: the last window's vote, class and fate

policyVars == <<run, speechEnd, position>>
audioVars == <<settings, failures, policyVars, heard, last>>

MaxFailures == 3
Never == -1
NoRun == [class |-> "unknown", length |-> 0]

AudioInit ==
    /\ settings \in Settings
    /\ failures \in {0, MaxFailures}
    /\ run = NoRun
    /\ speechEnd = Never
    /\ position = 0
    /\ heard = << >>
    /\ last = [vote |-> "none", class |-> "unknown", keep |-> TRUE]

-----------------------------------------------------------------------------
\* VadEnergyClassifier.  Scores are in 6000ths, so that the weights of the
\* features and of the vote are whole numbers.
Features == [silent : BOOLEAN, pauses : Levels, zcr : Levels, envelope : Levels, loud : Levels]

\* "none": no detector, or one that failed; it answered otherwise.
Votes == {"none", "voice", "no_voice"}

SpeechScore(f, vote) ==
    LET score == 45 * f.pauses + 30 * f.zcr + 25 * f.envelope
    IN  IF vote = "none" THEN 10 * score
        ELSE 6 * score + (IF vote = "voice" THEN 2400 ELSE 0)

MusicScore(f) ==
    10 * (40 * (6 - f.pauses) + 25 * (6 - f.zcr) + 25 * (6 - f.envelope) + 10 * f.loud)

Musical(f) == MusicScore(f) >= 3000

\* Over music less is asked of speech: SPEECH_OVER_MUSIC_FLOOR, or the vote.
OverMusic_FullBar(f, vote) == SpeechScore(f, vote) >= 3000
OverMusic(f, vote) == SpeechScore(f, vote) >= 1500 \/ vote = "voice"

Speechy(f, vote) == SpeechScore(f, vote) >= 3000 \/ (Musical(f) /\ OverMusic(f, vote))

Voiced(f, vote) == vote = "voice" \/ f.zcr >= 1

Decide(f, vote) ==
    CASE f.silent -> "silence"
      [] ~f.silent /\ Speechy(f, vote) /\ Musical(f) -> "speech_over_music"
      [] ~f.silent /\ Speechy(f, vote) /\ ~Musical(f) -> "speech"
      [] ~f.silent /\ ~Speechy(f, vote) /\ Musical(f) ->
            (IF Voiced(f, vote) THEN "singing" ELSE "music")
      [] OTHER -> "unknown"

\* The classes that some window gets with a vote.
Verdicts == [vote \in Votes |-> {Decide(f, vote) : f \in Features}]

Spoken == {"speech", "speech_over_music"}
Songs == {"music", "singing"}

-----------------------------------------------------------------------------
\* SileroVad.speech_probability() over the chunks of a window: a chunk that
\* fails ends it, one that succeeds clears the count of failures.  A detector
\* that is given up stays so: a new connection resets its state only.
Detect(vote) ==
    \/ failures = MaxFailures /\ vote = "none" /\ UNCHANGED failures
    \/ failures < MaxFailures /\ vote # "none" /\ failures' = 0
    \/ failures < MaxFailures /\ vote = "none" /\ failures' \in {failures + 1, 1}

\* RollingAudioPolicy.observe(): the run the window continues or starts.
Continued_NoReset(class) == [class |-> class, length |-> run.length + 1]
Continued(class) ==
    [class |-> class, length |-> IF class = run.class THEN run.length + 1 ELSE 1]

\* How long the run of a class is once the window has been seen.
Lasted(class) == Continued(class).length

\* _is_jingle_context() for a window of music, which leaves speechEnd alone.
JingleContext(class) ==
    /\ settings.jingles
    /\ Lasted(class) <= JingleMax
    /\ speechEnd # Never
    /\ (position + 1) - Lasted(class) - speechEnd \in 0 .. Adjacency

\* _should_keep()
ShouldKeep(class) ==
    \/ class = "speech"
    \/ class = "speech_over_music" /\ settings.overMusic
    \/ class = "unknown" /\ settings.uncertain
    \/ class = "silence" /\ Lasted(class) < SilenceEnd
    \/ /\ class \in Songs
       /\ \/ Lasted(class) < MusicDiscard
          \/ JingleContext(class)
          \/ class = "singing" /\ settings.singing

Observe(vote, class) ==
    /\ position' = position + 1
    /\ run' = Continued(class)
    /\ speechEnd' = IF class \in Spoken THEN position + 1 ELSE speechEnd
    /\ heard' = Append(heard, class)
    /\ last' = [vote |-> vote, class |-> class, keep |-> ShouldKeep(class)]

\* _classify_ready_windows(): a window through classifier and policy.
HearWindow(vote, class) ==
    /\ Len(heard) < MaxWindows
    /\ settings.backend = "vad_energy"
    /\ Detect(vote)
    /\ class \in Verdicts[vote]
    /\ Observe(vote, class)
    /\ UNCHANGED settings

\* PassthroughClassifier: everything is speech.
PassWindow ==
    /\ Len(heard) < MaxWindows
    /\ settings.backend = "passthrough"
    /\ Observe("none", "speech")
    /\ UNCHANGED <<settings, failures>>

\* _new_generation(): audio from before and after a dropout is not contiguous.
Fresh == run' = NoRun /\ position' = 0 /\ speechEnd' = Never

Dropout ==
    /\ heard # << >>
    /\ Fresh
    /\ heard' = << >>
    /\ last' = [vote |-> "none", class |-> "unknown", keep |-> TRUE]
    /\ UNCHANGED <<settings, failures>>

AudioNext ==
    \/ \E vote \in Votes : \E class \in Verdicts[vote] : HearWindow(vote, class)
    \/ PassWindow
    \/ Dropout

AudioSpec == AudioInit /\ [][AudioNext]_audioVars

-----------------------------------------------------------------------------
\* The windows at the end of h that have the class of its last.
LastRun(h) == {i \in DOMAIN h : \A j \in i .. Len(h) : h[j] = h[Len(h)]}

\* Music soon after speech may be a jingle until it has lasted too long.
MayBeJingle(h) ==
    /\ settings.jingles
    /\ Cardinality(LastRun(h)) <= JingleMax
    /\ \E i \in DOMAIN h : h[i] \in Spoken /\ Len(h) - Cardinality(LastRun(h)) - i <= Adjacency

\* What may be lost, told from everything heard on the connection: only what
\* has lasted, or what the configuration refuses outright.
Dispensable(h) ==
    LET class == h[Len(h)]
        lasted == Cardinality(LastRun(h))
    IN  \/ class = "silence" /\ lasted >= SilenceEnd
        \/ /\ class \in Songs /\ lasted >= MusicDiscard
           /\ ~MayBeJingle(h)
           /\ ~(class = "singing" /\ settings.singing)
        \/ class = "speech_over_music" /\ ~settings.overMusic
        \/ class = "unknown" /\ ~settings.uncertain

(* "Audio is never discarded on one window" (audio_classifier.py:604): the   *)
(* counters of the policy, updated window by window and cleared by a         *)
(* dropout, drop exactly what the whole of the connection shows to be        *)
(* dispensable; music near speech is kept as long as a jingle lasts, and a   *)
(* song is not kept for ever.                                                *)
DropsOnlyTheDispensable == heard # << >> => (last.keep <=> ~Dispensable(heard))

(* When the detector says that there is a voice, the window is lost only as  *)
(* silence: whatever its other features, it is never music or singing, and   *)
(* what else it can be is kept by the default configuration.                 *)
VoiceIsKept ==
    last.vote = "voice" /\ last.class # "silence" /\ settings.overMusic /\ settings.uncertain
        => last.keep
=============================================================================

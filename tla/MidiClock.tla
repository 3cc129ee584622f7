------------------------------- MODULE MidiClock -------------------------------
(***************************************************************************)
(* The MIDI clock adapter (clock.rs): a fixture's messages are applied one *)
(* after the other to a picture of the sender's clock, and what the        *)
(* timeline holds afterwards says where in the song the sender is and how  *)
(* far that can be relied on.                                              *)
(*                                                                         *)
(* A message is [kind, value]: its bytes as the contracts library reads    *)
(* them.  "misfit" is a song position pointer with wrong data bytes,       *)
(* "other" any message that is not about the clock, "empty" no bytes at    *)
(* all.  Bar and beat follow from position and meter, so that only whether *)
(* they are reported matters.                                              *)
(***************************************************************************)
EXTENDS Integers, Sequences

CONSTANTS
    Fixtures,   \* [schema, version, named, meter, events]; meter: has a time signature
    Unavailable \* no position

MessageKinds == {"tick", "start", "continue", "stop", "spp", "misfit", "other", "empty"}

ASSUME FixturesAssumption ==
    Fixtures \subseteq [schema : BOOLEAN, version : BOOLEAN, named : BOOLEAN,
                        meter : BOOLEAN,
                        events : Seq([kind : MessageKinds, value : Nat])]
ASSUME UnavailableAssumption == Unavailable \notin Nat

VARIABLES
    fixture,
    verdict,      \* "read", "running", "refused"
    heard,        \* how many of the fixture's messages were applied
    clock,        \* the library's MidiClockSnapshot: [running, position]
    source,       \* song_position_source
    timeline,     \* the source's latest RuntimeMidiClockStateSnapshot
    diagnostics   \* the messages that were reported as errors

midiVars == <<fixture, verdict, heard, clock, source, timeline, diagnostics>>

song_position_authority(src) ==
    CASE src = "spp" -> "authoritative"
      [] src \in {"start-reset", "tick-accumulated"} -> "derived"
      [] src = "unknown" -> "unavailable"

\* midi_clock_snapshot_to_clock_state reports bar and beat when there is a
\* meter; set_bar_beat_unavailable and set_bar_beat_authority correct it.
bar_beat_authority(src, meter) ==
    IF src = "unknown" \/ ~ meter THEN "unavailable" ELSE "derived"

corrected_clock_state(snap, src, meter) ==
    [running   |-> snap.running,
     position  |-> IF src = "unknown" THEN Unavailable ELSE snap.position,
     authority |-> song_position_authority(src),
     barBeat   |-> bar_beat_authority(src, meter)]

MidiInit ==
    /\ fixture \in Fixtures
    /\ verdict = "read"
    /\ heard = 0
    /\ clock = [running |-> FALSE, position |-> 0]
    /\ source = "unknown"
    /\ timeline = corrected_clock_state(clock, source, fixture.meter)
    /\ diagnostics = {}

valid_fixture(f) ==
    /\ f.schema /\ f.version /\ f.named
    /\ \A i \in DOMAIN f.events : f.events[i].kind # "empty"

validate_midi_clock_fixture ==
    /\ verdict = "read"
    /\ verdict' = IF valid_fixture(fixture) THEN "running" ELSE "refused"
    /\ UNCHANGED <<fixture, heard, clock, source, timeline, diagnostics>>

\* parse_runtime_midi_clock_message: a song position pointer with wrong data
\* is one without a position; what is not about the clock has no kind.
parsed_kind(message) == IF message.kind = "misfit" THEN "spp" ELSE message.kind

\* Messages that are reported with an error: not parsed, or refused by the library.
is_error(message) == message.kind \in {"misfit", "other"}

\* The library's apply_midi_clock_message, as the tests of clock.rs use it.  A
\* sixteenth is six ticks, and whether a stopped clock counts is the library's
\* affair: a tick may or may not move the position.
apply_midi_clock_message(state, message) ==
    CASE message.kind = "tick"     -> {state, [state EXCEPT !.position = @ + 1]}
      [] message.kind = "start"    -> {[running |-> TRUE, position |-> 0]}
      [] message.kind = "continue" -> {[state EXCEPT !.running = TRUE]}
      [] message.kind = "stop"     -> {[state EXCEPT !.running = FALSE]}
      [] message.kind = "spp"      -> {[state EXCEPT !.position = message.value]}
      [] OTHER                     -> {state}

\* Faulty variant: a pointer stays exact while ticks go by.
update_song_position_source_kept(src, sort) ==
    CASE sort = "start" -> "start-reset"
      [] sort = "spp" -> "spp"
      [] sort = "tick" /\ src = "start-reset" -> "tick-accumulated"
      [] OTHER -> src

update_song_position_source(src, sort) ==
    CASE sort = "start" -> "start-reset"
      [] sort = "spp" -> "spp"
      [] sort = "tick" /\ src # "unknown" -> "tick-accumulated"
      [] OTHER -> src

\* The timeline keeps one snapshot per source, the latest.
record(state, src) == timeline' = corrected_clock_state(state, src, fixture.meter)

\* One round of run_midi_clock_fixture: the message is applied and the
\* resulting state recorded under its source.
apply_timestamped_message ==
    /\ verdict = "running"
    /\ heard < Len(fixture.events)
    /\ LET message == fixture.events[heard + 1] IN
         /\ clock' \in apply_midi_clock_message(clock, message)
         /\ IF is_error(message)
            THEN /\ source' = source
                 /\ diagnostics' = diagnostics \cup {heard + 1}
            ELSE /\ source' = update_song_position_source(source, parsed_kind(message))
                 /\ diagnostics' = diagnostics
    /\ heard' = heard + 1
    /\ record(clock', source')
    /\ UNCHANGED <<fixture, verdict>>

MidiNext == validate_midi_clock_fixture \/ apply_timestamped_message

MidiSpec == MidiInit /\ [][MidiNext]_midiVars

-----------------------------------------------------------------------------
Kind(i) == fixture.events[i].kind

\* The i-th message told the position and nothing has moved it since.
PositionFrom(i) ==
    /\ Kind(i) = "spp"
    /\ \A j \in i + 1..heard : Kind(j) \notin {"tick", "start", "spp"}

Anchored == \E i \in 1..heard : Kind(i) \in {"start", "spp"}

\* The timeline claims to know the position exactly if the sender has told
\* it and neither ticks nor a start have moved it since, and then it is that
\* position; it reports none before the sender started or told one, whatever
\* stops, continues, malformed pointers and foreign messages came in between
\* (update_song_position_source, corrected_clock_state).
PositionIsEarned ==
    /\ timeline.authority = "authoritative" <=> \E i \in 1..heard : PositionFrom(i)
    /\ \A i \in 1..heard : PositionFrom(i) => timeline.position = fixture.events[i].value
    /\ timeline.position # Unavailable <=> Anchored
    /\ timeline.barBeat = "derived" => Anchored /\ fixture.meter
===============================================================================

------------------------------ MODULE MCServices ------------------------------
EXTENDS EventStreams, AudioDsp, Registries, MidiClock, TLC
(***************************************************************************)
(* Services of the runtime that share no state with one another, in one    *)
(* run: a behaviour picks one of them and leaves the others as they start. *)
(***************************************************************************)
CONSTANTS num, tone, con, mix, dac, aux, d1, d2, e1, p1, p2

Edge(from, fromPort, to, toPort) ==
    [from |-> from, fromPort |-> fromPort, to |-> to, toPort |-> toPort, feedback |-> FALSE]
Feedback(e) == [e EXCEPT !.feedback = TRUE]
Graph(kinds, params, domains, edges) ==
    [nodes |-> SetToSeq(DOMAIN kinds), kind |-> kinds,
     param |-> params @@ [n \in DOMAIN kinds |-> NoParam],
     domain |-> domains @@ [n \in DOMAIN kinds |-> NoDomain],
     edges |-> edges]

\* An oscillator times a constant, to a sink; as is, with the oscillator's edge
\* fed back, and with a chain of two multiplications.
Tone(sink) == num :> "float" @@ tone :> "osc" @@ con :> "sig" @@ mix :> "mul" @@ dac :> sink
ToneEdges(port) ==
    <<Edge(num, "value", tone, "frequency"), Edge(tone, "out", mix, "left"), Edge(con, "out", mix, "right"),
      Edge(mix, "out", dac, port)>>
Numbers == num :> 1 @@ con :> 3
Back(edges) == [edges EXCEPT ![2] = Feedback(@)]
Play == Graph(Tone("output"), Numbers, <<>>, Append(ToneEdges("left"), Edge(tone, "out", dac, "right")))
PlayBack == [Play EXCEPT !.edges = Back(@)]
PlayLate == [Play EXCEPT !.edges[4] = Feedback(@)]
Take == Graph(Tone("snapshot"), Numbers, <<>>, ToneEdges("signal"))
TakeBack == [Take EXCEPT !.edges = Back(@)]
Twice == Graph(tone :> "osc" @@ con :> "osc" @@ mix :> "mul" @@ aux :> "mul" @@ dac :> "output", con :> 2, <<>>,
               <<Edge(tone, "out", mix, "left"), Edge(con, "out", mix, "right"), Edge(mix, "out", aux, "left"),
                 Edge(con, "out", aux, "right"), Edge(aux, "out", dac, "right")>>)

\* An input and an output, connected directly, through a boundary, or both ways.
Wire(boundary, domains, edges) == Graph(num :> "input" @@ aux :> boundary @@ mix :> "mul" @@ dac :> "output", <<>>, domains, edges)
Direct == <<Edge(num, "out", dac, "left")>>
Through == <<Edge(num, "out", aux, "in"), Edge(aux, "out", mix, "left"), Edge(mix, "out", dac, "left")>>
Wires ==
    {Wire(boundary, domains, edges) :
       boundary \in {"clock-bridge", "resample"},
       domains \in {<<>>, num :> d1 @@ dac :> d1, num :> d1 @@ dac :> d2},
       edges \in {Direct, Through, Direct \o Through, Through \o Direct}}

Odd == {Graph(tone :> "bad", <<>>, <<>>, <<>>), Graph(num :> "float", <<>>, <<>>, <<>>),
        Graph(dac :> "output" @@ aux :> "output", <<>>, <<>>, <<>>)}

MCGraphs == {Play, PlayBack, PlayLate, Take, TakeBack, Twice} \union Wires \union Odd
MCOptions ==
    {[block |-> 2, rate |-> 1, blocks |-> 3, channels |-> 2],
     [block |-> 3, rate |-> 1, blocks |-> 0, channels |-> 3],
     [block |-> 1, rate |-> 1, blocks |-> 2, channels |-> 0],
     [block |-> 0, rate |-> 1, blocks |-> 1, channels |-> 1],
     [block |-> 1, rate |-> 0, blocks |-> 1, channels |-> 1]}

-----------------------------------------------------------------------------
\* Manifests and directories
Path(name) == [name |-> name, up |-> FALSE]
Outside(name) == [name |-> name, up |-> TRUE]
No == [state |-> "absent", manifest |-> NoFile]
Is(manifest) == [state |-> "manifest", manifest |-> manifest]
Extension(type, native, entrypoint, artifact, paths) ==
    [id |-> type, valid |-> TRUE, abi |-> TRUE, kind |-> type, native |-> native,
     entrypoint |-> entrypoint, artifact |-> artifact, files |-> paths]
Package(id, paths) == [id |-> id, valid |-> TRUE, files |-> paths]
Directory(path, extension, package, present, links) ==
    [path |-> path, extension |-> extension, package |-> package, files |-> present, links |-> links]

Codec(paths) == Extension("codec", TRUE, TRUE, Path("lib"), paths)
MCExtensionContents ==
    {Directory(<<"e">>, No, No, {}, {}),
     Directory(<<"e">>, [No EXCEPT !.state = "garbage"], No, {}, {}),
     Directory(<<"e">>, Is(Codec({Path("help")})), No, {"help", "lib"}, {}),
     Directory(<<"e">>, Is(Codec({Path("help")})), No, {"help"}, {}),
     Directory(<<"e">>, Is([Codec({}) EXCEPT !.abi = FALSE]), No, {"lib"}, {}),
     Directory(<<"e">>, Is(Codec({Outside("help")})), No, {"help", "lib"}, {}),
     Directory(<<"e">>, Is(Extension("native-runtime", FALSE, FALSE, NoFile, {})), No, {}, {}),
     Directory(<<"e">>, Is(Extension("native-runtime", TRUE, TRUE, NoFile, {})), No, {"lib"}, {}),
     Directory(<<"e">>, Is(Extension("native-runtime", TRUE, FALSE, Path("lib"), {})), No, {"lib"}, {}),
     Directory(<<"e">>, Is(Extension("node-pack", FALSE, FALSE, NoFile, {})), No, {}, {})}
MCPackageContents ==
    {Directory(path, No, Is(Package(id, {Path("patch")})), {"patch"}, links) :
       path \in {<<"p">>, <<"p", "q">>, <<"r">>}, id \in {1, 2}, links \in {{}, {"patch"}}}
    \union
    {Directory(NoPath, No, No, {}, {}),
     Directory(<<"r">>, No, No, {}, {}),
     Directory(<<"r">>, Is(Codec({})), No, {}, {}),
     Directory(<<"r">>, Is(Codec({})), Is(Package(1, {})), {}, {}),
     Directory(<<"r">>, No, [No EXCEPT !.state = "garbage"], {}, {}),
     Directory(<<"r">>, No, Is(Package(2, {Outside("patch")})), {}, {}),
     Directory(<<"r">>, No, Is([Package(1, {}) EXCEPT !.valid = FALSE]), {}, {})}
MCAnswers == {<<"info">>, <<"error">>, <<"warning", "error">>}
MCExtensionDirs == <<e1>>
MCPackageDirs == <<p1, p2>>
MCContents == [d \in {e1, p1, p2} |-> IF d = e1 THEN MCExtensionContents ELSE MCPackageContents]

-----------------------------------------------------------------------------
\* Fixtures of up to four messages, and ones that are refused.
Say(sort) == [kind |-> sort, value |-> 0]
Pointer(value) == [kind |-> "spp", value |-> value]
Messages == {Say(sort) : sort \in MessageKinds} \union {Pointer(4)}
Fixture(events, meter) ==
    [schema |-> TRUE, version |-> TRUE, named |-> TRUE, meter |-> meter, events |-> events]
Silent == Fixture(<<>>, FALSE)
MCFixtures ==
    {Fixture(events, meter) : events \in UNION {[1..n -> Messages] : n \in 0..4}, meter \in BOOLEAN}
    \union {[Silent EXCEPT !.schema = FALSE], [Silent EXCEPT !.version = FALSE],
            [Silent EXCEPT !.named = FALSE]}

-----------------------------------------------------------------------------
VARIABLE service

AudioIdle == graph = Play /\ options = [block |-> 2, rate |-> 1, blocks |-> 3, channels |-> 2]
             /\ order = CHOOSE q \in PlannedOrders(Play) : TRUE
RegistriesIdle == disk = [d \in Directories |-> CHOOSE c \in MCContents[d] : TRUE]

MCInit ==
    /\ service \in {"streams", "audio", "registries", "log", "midi"}
    /\ service # "streams" => kind = "session"
    /\ Init
    /\ service # "audio" => AudioIdle
    /\ AudioInit
    /\ service # "registries" => RegistriesIdle
    /\ RegistriesInit
    /\ service # "midi" => fixture = Silent
    /\ MidiInit

MCNext ==
    /\ UNCHANGED service
    /\ \/ service = "streams" /\ Next /\ UNCHANGED <<audioVars, registriesVars, midiVars>>
       \/ service = "audio" /\ AudioNext /\ UNCHANGED <<vars, registriesVars, midiVars>>
       \/ service = "registries" /\ RegistriesNext /\ UNCHANGED <<vars, audioVars, midiVars>>
       \/ service = "log" /\ LogNext /\ UNCHANGED <<vars, audioVars, registryVars, midiVars>>
       \/ service = "midi" /\ MidiNext /\ UNCHANGED <<vars, audioVars, registriesVars>>

MCSpec == MCInit /\ [][MCNext]_<<service, vars, audioVars, registriesVars, midiVars>>
=============================================================================

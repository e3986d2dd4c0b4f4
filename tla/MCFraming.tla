------------------------------ MODULE MCFraming ------------------------------
(***************************************************************************)
(* Streams for TLC: packets, also empty and refused ones and junk between  *)
(* them, and frames, with a frame that was given up, a wrong length and    *)
(* junk in front.                                                          *)
(***************************************************************************)
EXTENDS Framing

WrongLength ==
    [bytes |-> <<STAR>> \o Inner(<<70, 71>>, 13) \o <<HASH>>, message |-> <<>>, head |-> 0]
Of(reader, parts) == [reader |-> reader, parts |-> parts]
MCStreams == {
    Of("client", <<Packet(<<123, 1>>), Packet(<<>>), Packet(<<123, 2, 3>>)>>),
    Of("client",
            <<Junk(<<9, 9>>), Packet(<<Broken>>), Packet(<<123>>), Packet(<<123, 4>>)>>),
    Of("forklift", <<Frame(<<70, 71>>), Frame(<<72, 73, 74>>), Frame(<<70, 71>>)>>),
    Of("forklift",
            <<Junk(<<STAR, 48, 48>>), Frame(<<70, 71>>), WrongLength, Frame(<<72, 73>>)>>),
    Of("forklift",
            <<Junk(<<48, 48, HASH, 48>>), Frame(<<72, 73>>), Frame(<<70, 71, 75>>)>>),
    Of("wms", <<Task(<<70>>), Junk(<<STAR, 48, 48>>), Task(<<71, 72>>), Junk(<<HASH>>),
                     Task(<<70>>)>>)}
=============================================================================

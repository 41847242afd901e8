--------------------------------- MODULE SDP ---------------------------------
(***************************************************************************)
(* Session descriptions: the parser and the formatter of lib/proto/sdp.cc. *)
(*                                                                         *)
(* A line is a record of the kind of line that the regular expressions     *)
(* tell apart and the value they extract; the layout of the text is left   *)
(* out.  A candidate line whose address is not an IPv4 address (a local    *)
(* name, say) matches none of them: it is of kind "other", as is whatever  *)
(* else the parser does not know (fingerprints, setup).                    *)
(***************************************************************************)
EXTENDS Naturals, Sequences, FiniteSets, SequencesExt

Line(k, v) == [k |-> k, v |-> v]

LinesOf(kinds, lines) == SelectSeq(lines, LAMBDA l : l.k \in kinds)

ValuesOf(k, lines) ==
    LET ls == LinesOf({k}, lines) IN [i \in 1..Len(ls) |-> ls[i].v]

\* Consecutive groups of lines, a new one at every line of kind k.
SplitAt(k, lines) ==
    LET starts == {i \in 1..Len(lines) : i = 1 \/ lines[i].k = k}
        end(i) == CHOOSE j \in i..Len(lines) :
                      (j = Len(lines) \/ j + 1 \in starts) /\ \A n \in i + 1..j : n \notin starts
    IN [n \in 1..Cardinality(starts) |->
          LET i == CHOOSE i \in starts : Cardinality({m \in starts : m <= i}) = n
          IN SubSeq(lines, i, end(i))]

-----------------------------------------------------------------------------
(* Media formats *)

\* Feedback and parameter lines count only if they name the payload type of the
\* rtpmap line before them.
MediaFormat(lines) ==
    FoldLeft(LAMBDA f, l :
                CASE l.k = "rtpmap" -> [f EXCEPT !.pt = l.v.pt, !.codec = l.v.codec]
                  [] l.k = "rtcp-fb" /\ l.v.pt = f.pt -> [f EXCEPT !.fbTypes = Append(@, l.v.val)]
                  [] l.k = "fmtp" /\ l.v.pt = f.pt -> [f EXCEPT !.fmtParams = Append(@, l.v.val)]
                  [] OTHER -> f,
             [pt |-> 0, codec |-> "", fbTypes |-> <<>>, fmtParams |-> <<>>], lines)

MediaFormats(lines) ==
    LET gs == SplitAt("rtpmap", LinesOf({"rtpmap", "rtcp-fb", "fmtp"}, lines))
    IN [i \in 1..Len(gs) |-> MediaFormat(gs[i])]

formatLines(f) ==
    <<Line("rtpmap", [pt |-> f.pt, codec |-> f.codec])>>
      \o [i \in 1..Len(f.fbTypes) |-> Line("rtcp-fb", [pt |-> f.pt, val |-> f.fbTypes[i]])]
      \o [i \in 1..Len(f.fmtParams) |-> Line("fmtp", [pt |-> f.pt, val |-> f.fmtParams[i]])]

-----------------------------------------------------------------------------
(* SSRCs *)

\* A group line lists SSRCs; an attribute line belongs to the entry of its SSRC,
\* or to a new one.
SSRCDescription(lines) ==
    LET New(n)       == [ssrc |-> n, cname |-> <<>>, msid |-> <<>>]
        Knows(ss, n) == \E i \in 1..Len(ss) : ss[i].ssrc = n
        Set(s, attr) == IF attr.name = "cname" THEN [s EXCEPT !.cname = attr.val]
                        ELSE [s EXCEPT !.msid = attr.val]
        SetIn(ss, a) == LET i == SelectInSeq(ss, LAMBDA s : s.ssrc = a.ssrc)
                        IN [ss EXCEPT ![i] = Set(@, a)]
    IN FoldLeft(LAMBDA ss, l :
                   IF l.k = "ssrc-group" THEN ss \o [i \in 1..Len(l.v) |-> New(l.v[i])]
                   ELSE IF Knows(ss, l.v.ssrc) THEN SetIn(ss, l.v)
                   ELSE SetIn(Append(ss, New(l.v.ssrc)), l.v),
                <<>>, LinesOf({"ssrc-group", "ssrc"}, lines))

ssrcValues(ss) == [i \in 1..Len(ss) |-> ss[i].ssrc]

\* Mutant: the group line is printed after the attributes, the last SSRC first.
ssrcLines_reversed(ss) ==
    FlattenSeq([i \in 1..Len(ss) |->
                   <<Line("ssrc", [ssrc |-> ss[Len(ss) + 1 - i].ssrc, name |-> "msid",
                                   val |-> ss[Len(ss) + 1 - i].msid])>>])

\* The group line is printed only for several SSRCs.
ssrcLines(ss) ==
    (IF Len(ss) > 1 THEN <<Line("ssrc-group", ssrcValues(ss))>> ELSE <<>>)
      \o FlattenSeq([i \in 1..Len(ss) |->
           (IF ss[i].cname = <<>> THEN <<>>
            ELSE <<Line("ssrc", [ssrc |-> ss[i].ssrc, name |-> "cname", val |-> ss[i].cname])>>)
             \o (IF ss[i].msid = <<>> THEN <<>>
                 ELSE <<Line("ssrc", [ssrc |-> ss[i].ssrc, name |-> "msid", val |-> ss[i].msid])>>)])

-----------------------------------------------------------------------------
(* Media descriptions *)

\* Attributes that are there once, the last line counting, and those that are
\* kept as a list; PrintOrder is the order in which lines() writes them.
Once == {"c", "rtcp", "ufrag", "pwd", "mid", "direction", "msid"}

Listed == {"candidate", "ice-other", "extmap", "rtcp-other"}

PrintOrder == <<"c", "rtcp", "candidate", "ufrag", "pwd", "ice-other", "mid", "extmap",
                "direction", "msid", "rtcp-other">>

attribute(k, lines) == LET vs == ValuesOf(k, lines)
                       IN IF k \in Once /\ vs # <<>> THEN <<Last(vs)>> ELSE vs

MediaDescription(lines) ==
    [type         |-> Last(ValuesOf("m", lines)).type,
     port         |-> Last(ValuesOf("m", lines)).port,
     attr         |-> [k \in Once \cup Listed |-> attribute(k, lines)],
     mediaFormats |-> MediaFormats(lines),
     ssrcs        |-> SSRCDescription(lines)]

mediaLines(m) ==
    <<Line("m", [type |-> m.type, port |-> m.port])>>
      \o FlattenSeq([i \in 1..Len(PrintOrder) |->
           [j \in 1..Len(m.attr[PrintOrder[i]]) |->
              Line(PrintOrder[i], m.attr[PrintOrder[i]][j])]])
      \o FlattenSeq([i \in 1..Len(m.mediaFormats) |-> formatLines(m.mediaFormats[i])])
      \o ssrcLines(m.ssrcs)

Mid(m) == m.attr["mid"][1]

Direction(m) == m.attr["direction"][1]

\* filterCandidatesBySubnet; "in" stands for addresses in the configured subnet.
filterCandidatesBySubnet(cs) == SelectSeq(cs, LAMBDA c : c.net = "in")

\* std::max_element: the first of those with the highest priority.
highestPriorityICECandidate(cs) ==
    cs[SelectInSeq(cs, LAMBDA c : \A i \in 1..Len(cs) : cs[i].prio <= c.prio)]

-----------------------------------------------------------------------------
(* Session descriptions *)

\* Mutant: the session starts with the second media section.
sections_second(lines) == LET gs == SplitAt("m", lines)
                          IN [head |-> gs[1], media |-> SubSeq(gs, 3, Len(gs))]

\* The lines before the first m-line, and the media sections.
sections(lines) == LET gs == SplitAt("m", lines)
                   IN IF gs = <<>> \/ gs[1][1].k = "m" THEN [head |-> <<>>, media |-> gs]
                      ELSE [head |-> gs[1], media |-> Tail(gs)]

\* The constructor throws: no v-line or another version, no o-line, no t-line.
invalidDescription(lines) ==
    LET head == sections(lines).head
    IN \/ ValuesOf("v", head) = <<>> \/ Last(ValuesOf("v", head)) # 0
       \/ ValuesOf("o", head) = <<>>
       \/ ValuesOf("t", head) = <<>>

SessionDescription(lines) ==
    LET parts == sections(lines)
    IN [origin  |-> Last(ValuesOf("o", parts.head)),
        timing  |-> ValuesOf("t", parts.head),
        otherLines |-> ValuesOf("session-other", parts.head),
        media   |-> [i \in 1..Len(parts.media) |-> MediaDescription(parts.media[i])]]

\* The bundle is rebuilt; every description that is printed has a mid.
bundleLine(d) == Line("bundle", [i \in 1..Len(d.media) |-> Mid(d.media[i])])

sessionLines(d) ==
    <<Line("v", 0), Line("o", d.origin), Line("s", "-")>>
      \o [i \in 1..Len(d.timing) |-> Line("t", d.timing[i])]
      \o (IF d.media = <<>> THEN <<>> ELSE <<bundleLine(d)>>)
      \o [i \in 1..Len(d.otherLines) |-> Line("session-other", d.otherLines[i])]
      \o FlattenSeq([i \in 1..Len(d.media) |-> mediaLines(d.media[i])])

=============================================================================

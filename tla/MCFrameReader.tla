---------------------------- MODULE MCFrameReader ----------------------------
(* Small readers: one per detection mode, with one- and two-byte delimiters,
   several finish sequences, checksums, byte rules. *)
EXTENDS FrameReader

Base == [detection |-> "End", start |-> <<1>>, finish |-> <<<<2>>>>, crcLen |-> 0,
         fixedLen |-> 0, header |-> {}, body |-> {}]

(* A one-byte checksum, so that a payload and its checksum can collide with
   the delimiters. *)
MCChecksum(data, len) ==
    LET sum[i \in 0 .. Len(data)] == IF i = 0 THEN 0 ELSE sum[i - 1] + data[i]
    IN  [i \in 1 .. len |-> sum[Len(data)] % 3]

(* The ring keeps four bytes, so the delimiters and frames are short enough to
   fit; a checksum after a finish sequence is in MCTrailerConfigs. *)
MCConfigs ==
    {Base,
     [Base EXCEPT !.finish = <<<<1, 2>>, <<2>>, <<1>>>>],
     [Base EXCEPT !.detection = "Start"],
     [Base EXCEPT !.detection = "Start", !.crcLen = 1],
     [Base EXCEPT !.detection = "StartEnd"],
     [Base EXCEPT !.detection = "StartEnd", !.finish = <<<<2, 1>>>>],
     [Base EXCEPT !.detection = "StartEnd", !.crcLen = 1],
     [Base EXCEPT !.detection = "Fixed", !.fixedLen = 3, !.crcLen = 1, !.header = {1}],
     [Base EXCEPT !.detection = "Fixed", !.fixedLen = 2, !.header = {1, 2}, !.body = {0, 2}],
     [Base EXCEPT !.detection = "Fixed", !.fixedLen = 1, !.crcLen = 1],
     [Base EXCEPT !.detection = "None"]}

(* The streams of all these readers may be cut anywhere. *)
ASSUME MCConfigsSplit == \A c \in MCConfigs : SplitsAnywhere(c)

(* A finish sequence followed by a checksum. *)
MCTrailerConfigs == {[Base EXCEPT !.crcLen = 1]}
=============================================================================

-------------------------- MODULE MCUploadRequest --------------------------
EXTENDS UploadRequest

CONSTANTS MaxParts, MaxTest,    \* bounds of the requests of any shape
          MaxTests, MaxSize     \* bounds of the tests that are split

SizeLists == UNION {[1..n -> 0..MaxSize] : n \in 0..MaxTests}

PartNames == ExpectedParts(MaxTest) \cup {<<0, "other">>}

PartLists == UNION {[1..n -> PartNames] : n \in 0..MaxParts}

(* No JSON, an empty object, another field, a taskId that is no number, a right one. *)
Texts == {text \in JSONTexts : "name" \in DOMAIN text.fields =>
                                  text.fields = [f \in {"name"} |-> "other"]}

(* Requests of any shape, with the smallest tests. *)
AnyRequests ==
    {[parts |-> parts, json |-> text, sizes |-> [k \in 1..(Len(parts) \div 2) |-> 0]] :
        parts \in PartLists, text \in Texts}

(* Requests that are in order, with tests of any size. *)
GoodParts(n) ==
    <<TaskDataPart>> \o [p \in 1..(2 * n) |-> TestPart((p + 1) \div 2,
                                                      IF p % 2 = 1 THEN "input" ELSE "output")]
GoodText == CHOOSE text \in JSONTexts : text.fields = [f \in {"taskId"} |-> "number"]
GoodRequests ==
    {[parts |-> GoodParts(Len(sizes)), json |-> GoodText, sizes |-> sizes] : sizes \in SizeLists}

AllRequests == AnyRequests \cup GoodRequests
=============================================================================

------------------------------- MODULE Chain -------------------------------
(***************************************************************************)
(* The passes that turn the chain of elements of a fragment into the       *)
(* records of an object file (shared/ments.c): ast runs pass_canonicalize, *)
(* pass_unroll and pass_merge over it, lit the last two, one element after *)
(* the other, with neighbours merged and removed under way.  An element    *)
(* that expressions refer to stands for its size in them, so that it must  *)
(* neither go away nor change.                                             *)
(***************************************************************************)
EXTENDS Integers, SequencesExt

CONSTANTS Chains,          \* the chains considered: sequences of elements
          Tools,           \* a subset of {"ast", "lit"}
          block_threshold  \* DATA of this many bytes or more stay DATA

(* An element has an identity, the flag nrefs > 0 and                      *)
(*   BLOCK   bytes: its contents;                                          *)
(*   DATA    width, value, count: value is a constant or an expression     *)
(*           over names, the count is a constant;                          *)
(*   CMD     code: the bytes cmd_generate makes of it, and whether its     *)
(*           argument has come out as a constant.                          *)
Block(id, ref, bytes) == [tag |-> "BLOCK", id |-> id, ref |-> ref, bytes |-> bytes]
Data(id, ref, width, value, count) ==
    [tag |-> "DATA", id |-> id, ref |-> ref,
     width |-> width, value |-> value, count |-> count]
Cmd(id, ref, known, code) ==
    [tag |-> "CMD", id |-> id, ref |-> ref, known |-> known, code |-> code]

Const(c) == [name |-> FALSE, c |-> c]
NamePlus(c) == [name |-> TRUE, c |-> c]

(* A byte of the image, known now or at load time only. *)
Cell == [later : BOOLEAN, b : Int]

ChainElement ==
    [tag : {"BLOCK"}, id : Nat, ref : BOOLEAN, bytes : Seq(Cell)]
    \union [tag : {"DATA"}, id : Nat, ref : BOOLEAN, width : {1, 2, 4},
            value : [name : BOOLEAN, c : Int], count : Nat]
    \union [tag : {"CMD"}, id : Nat, ref : BOOLEAN, known : BOOLEAN, code : Seq(Cell)]

ASSUME ChainAssumption ==
    /\ Tools \subseteq {"ast", "lit"} /\ block_threshold \in Nat
    /\ Chains \subseteq Seq(ChainElement)

VARIABLES tool, orig, chain, phase, at
cvars == <<tool, orig, chain, phase, at>>

(* Byte j of a word, sign extended beyond its four bytes. *)
ByteOf(word, j) == IF j > 3 THEN IF word < 0 THEN 255 ELSE 0
                   ELSE (word \div (256 ^ j)) % 256

(* The bytes one item of DATA comes to; those of an expression over names  *)
(* are known at load time only.                                            *)
Item(width, value) == [j \in 1..width |->
    IF value.name THEN [later |-> TRUE, b |-> 4 * value.c + j]
                  ELSE [later |-> FALSE, b |-> ByteOf(value.c, j - 1)]]

Contents(el) ==
    CASE el.tag = "BLOCK" -> el.bytes
      [] el.tag = "CMD"   -> el.code
      [] el.tag = "DATA"  -> FlattenSeq([k \in 1..el.count |-> Item(el.width, el.value)])

Image(ch) == FlattenSeq([j \in DOMAIN ch |-> Contents(ch[j])])

-----------------------------------------------------------------------------
(* A plausible bug (mutant): one byte too few is compared. *)
ByteableButLast(word, width) == \A j \in 1..(width - 2) : ByteOf(word, j) = ByteOf(word, 0)

(* The loop shifts before it compares and runs width times, so that the    *)
(* byte above the item has to be equal as well.                            *)
byteable(word, width) == \A j \in 1..width : ByteOf(word, j) = ByteOf(word, 0)

(* lit has got rid of all references to elements before pass_unroll. *)
CInit == /\ tool \in Tools
         /\ orig \in Chains
         /\ tool = "lit" => \A j \in DOMAIN orig : ~ orig[j].ref
         /\ chain = orig
         /\ phase = IF tool = "ast" THEN "canonicalize" ELSE "unroll"
         /\ at = 1

Replace(el) == chain' = [chain EXCEPT ![at] = el]

Canonicalize ==
    /\ phase = "canonicalize" /\ at \in DOMAIN chain
    /\ LET el == chain[at] IN
       IF /\ el.tag = "DATA" /\ ~ el.value.name /\ el.width > 1
          /\ byteable(el.value.c, el.width)
       THEN Replace([el EXCEPT !.count = @ * el.width, !.width = 1])
       ELSE UNCHANGED chain
    /\ at' = at + 1
    /\ UNCHANGED <<tool, orig, phase>>

(* A plausible bug (mutant): references to the next element are forgotten. *)
FreeToMergeFirst(tag) ==
    /\ at < Len(chain) /\ ~ chain[at].ref
    /\ chain[at].tag = tag /\ chain[at + 1].tag = tag

(* Neither the element nor the next one is referred to. *)
FreeToMerge(tag) ==
    /\ at < Len(chain) /\ ~ chain[at].ref /\ ~ chain[at + 1].ref
    /\ chain[at].tag = tag /\ chain[at + 1].tag = tag

SameData == /\ FreeToMerge("DATA")
            /\ chain[at].value = chain[at + 1].value
            /\ chain[at].width = chain[at + 1].width

(* The while loop of pass_unroll: the next DATA is absorbed. *)
MergeData ==
    /\ phase = "unroll" /\ at \in DOMAIN chain
    /\ SameData
    /\ chain' = RemoveAt([chain EXCEPT ![at].count = @ + chain[at + 1].count], at + 1)
    /\ UNCHANGED <<tool, orig, phase, at>>

Small(el) == el.count * el.width < block_threshold

(* The rest of the loop body of pass_unroll. *)
Unrolled(el) ==
    CASE el.tag = "DATA" /\ ~ el.value.name /\ Small(el) -> Block(el.id, el.ref, Contents(el))
      [] el.tag = "CMD" /\ el.known -> Block(el.id, el.ref, Contents(el))
      [] OTHER -> el

Unroll == /\ phase = "unroll" /\ at \in DOMAIN chain
          /\ ~ SameData
          /\ Replace(Unrolled(chain[at]))
          /\ at' = at + 1
          /\ UNCHANGED <<tool, orig, phase>>

MergeBlocks ==
    /\ phase = "merge" /\ at \in DOMAIN chain
    /\ FreeToMerge("BLOCK")
    /\ chain' = RemoveAt([chain EXCEPT ![at].bytes = @ \o chain[at + 1].bytes], at + 1)
    /\ UNCHANGED <<tool, orig, phase, at>>

(* A plausible bug (mutant): the loop goes on after one merge at most. *)
MergeNextEarly == /\ phase = "merge" /\ at \in DOMAIN chain
                  /\ at' = at + 1
                  /\ UNCHANGED <<tool, orig, chain, phase>>

MergeNext == /\ phase = "merge" /\ at \in DOMAIN chain
             /\ ~ FreeToMerge("BLOCK")
             /\ at' = at + 1
             /\ UNCHANGED <<tool, orig, chain, phase>>

NextPass == /\ phase # "done" /\ at = Len(chain) + 1
            /\ phase' = CASE phase = "canonicalize" -> "unroll"
                          [] phase = "unroll" -> "merge"
                          [] phase = "merge" -> "done"
            /\ at' = 1
            /\ UNCHANGED <<tool, orig, chain>>

CNext == Canonicalize \/ MergeData \/ Unroll \/ MergeBlocks \/ MergeNext \/ NextPass

CSpec == CInit /\ [][CNext]_cvars

-----------------------------------------------------------------------------
(* No pass changes a byte of the program, whatever is merged with what     *)
(* (pass_canonicalize, pass_unroll, pass_merge).                           *)
ImagePreserved == Image(chain) = Image(orig)

Offset(ch, j) == Len(Image(SubSeq(ch, 1, j - 1)))

(* An element that expressions refer to is still there, where it was and   *)
(* as long as it was: its index in an ELEMENT or ELSUM goes on meaning     *)
(* the same size.  All else is merged: when pass_merge is through, blocks  *)
(* stand side by side only where one is referred to.                       *)
ReferencesHold ==
 /\ \A j \in DOMAIN orig : orig[j].ref =>
       \E k \in DOMAIN chain :
          /\ chain[k].id = orig[j].id
          /\ Offset(chain, k) = Offset(orig, j)
          /\ Len(Contents(chain[k])) = Len(Contents(orig[j]))
 /\ phase = "done" => \A k \in 1..(Len(chain) - 1) :
       chain[k].tag = "BLOCK" /\ chain[k + 1].tag = "BLOCK" => chain[k].ref \/ chain[k + 1].ref
=============================================================================

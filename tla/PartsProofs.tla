------------------------------ MODULE PartsProofs ------------------------------
(***************************************************************************)
(* What holds of the parts beside each other: what was proved of each     *)
(* by itself, since every step is a step of one of them or nothing to it.  *)
(***************************************************************************)
EXTENDS Parts

(* Every step is one of each part or nothing to it.                        *)
LEMMA PartsMove ==
  [Next]_vars =>
    /\ [K!Next]_K!vars
    /\ [S!Next]_S!vars
    /\ [T!Next]_T!vars
    /\ [W!Next]_W!vars
    /\ [I!Next]_I!vars
    /\ [A!Next]_A!vars
    /\ [N!Next]_N!vars
    /\ [O!Next]_O!vars
    /\ [V!Next]_V!vars
    /\ [Y!Next]_Y!vars
    /\ [Z!Next]_Z!vars
    /\ [E!Next]_E!vars
    /\ [D!Next]_D!vars
    /\ [J!Next]_J!vars
    /\ [R!Next]_R!vars
<1> SUFFICES ASSUME [Next]_vars PROVE
      /\ K!Next \/ UNCHANGED keyring
      /\ S!Next \/ UNCHANGED starts
      /\ T!Next \/ UNCHANGED transfer
      /\ W!Next \/ UNCHANGED worktrees
      /\ I!Next \/ UNCHANGED ingress
      /\ A!Next \/ UNCHANGED admission
      /\ N!Next \/ UNCHANGED names
      /\ O!Next \/ UNCHANGED ports
      /\ V!Next \/ UNCHANGED views
      /\ Y!Next \/ UNCHANGED policy
      /\ Z!Next \/ UNCHANGED panel
      /\ E!Next \/ UNCHANGED egress
      /\ D!Next \/ UNCHANGED proposals
      /\ J!Next \/ UNCHANGED lines
      /\ R!Next \/ UNCHANGED reviews
  BY DEF K!vars, keyring, S!vars, starts, T!vars, transfer, W!vars, worktrees, I!vars, ingress, A!vars, admission, N!vars, names, O!vars, ports, V!vars, views, Y!vars, policy, Z!vars, panel, E!vars, egress, D!vars, proposals, J!vars, lines, R!vars, reviews
<1>1. CASE UNCHANGED vars
  BY <1>1 DEF vars
<1>2. CASE Next
  <2>1. K!Next \/ UNCHANGED keyring
    BY <1>2, Zenon DEF Next
  <2>2. S!Next \/ UNCHANGED starts
    BY <1>2, Zenon DEF Next
  <2>3. T!Next \/ UNCHANGED transfer
    BY <1>2, Zenon DEF Next
  <2>4. W!Next \/ UNCHANGED worktrees
    BY <1>2, Zenon DEF Next
  <2>5. I!Next \/ UNCHANGED ingress
    BY <1>2, Zenon DEF Next
  <2>6. A!Next \/ UNCHANGED admission
    BY <1>2, Zenon DEF Next
  <2>7. N!Next \/ UNCHANGED names
    BY <1>2, Zenon DEF Next
  <2>8. O!Next \/ UNCHANGED ports
    BY <1>2, Zenon DEF Next
  <2>9. V!Next \/ UNCHANGED views
    BY <1>2, Zenon DEF Next
  <2>10. Y!Next \/ UNCHANGED policy
    BY <1>2, Zenon DEF Next
  <2>11. Z!Next \/ UNCHANGED panel
    BY <1>2, Zenon DEF Next
  <2>12. E!Next \/ UNCHANGED egress
    BY <1>2, Zenon DEF Next
  <2>13. D!Next \/ UNCHANGED proposals
    BY <1>2, Zenon DEF Next
  <2>14. J!Next \/ UNCHANGED lines
    BY <1>2, Zenon DEF Next
  <2>15. R!Next \/ UNCHANGED reviews
    BY <1>2, Zenon DEF Next
  <2> QED
    BY <2>1, <2>2, <2>3, <2>4, <2>5, <2>6, <2>7, <2>8, <2>9, <2>10, <2>11, <2>12, <2>13, <2>14, <2>15
<1> QED BY <1>1, <1>2

-----------------------------------------------------------------------------
(* Of the parts, specs are judged here: in Policy the judgement reads lists *)
(* backwards, and what is proved of such readings serves this part alone.  *)

(* Specs are well formed.                                                  *)
LEMMA SpecsStayWellFormed ==
  ASSUME Y!Constants, spec \in Y!Specs, Y!Next
  PROVE  spec' \in Y!Specs
<1>1. PICK key \in DOMAIN ForPolicy.Tries : \E value \in ForPolicy.Tries[key] : spec' = [spec EXCEPT ![key] = value]
  BY DEF Y!Next, Y!Write
<1>2. PICK value \in ForPolicy.Tries[key] : spec' = [spec EXCEPT ![key] = value]
  BY <1>1
<1>3. [Y!Empty EXCEPT ![key] = value] \in Y!Specs /\ key \in DOMAIN Y!Empty
  BY <1>1, <1>2 DEF Y!Constants
<1>4. key \in {"keys", "features", "privileged", "capAdd", "securityOpt", "mounts", "runArgs", "dockerfile",
               "context", "workspaceFolder", "workspaceMount", "shadowImages", "memory"}
  BY <1>3 DEF Y!Empty
<1>5. CASE key = "keys"
  BY <1>2, <1>3, <1>5 DEF Y!Specs, Y!Empty
<1>6. CASE key = "features"
  BY <1>2, <1>3, <1>6 DEF Y!Specs, Y!Empty
<1>7. CASE key = "privileged"
  BY <1>2, <1>3, <1>7 DEF Y!Specs, Y!Empty
<1>8. CASE key = "capAdd"
  BY <1>2, <1>3, <1>8 DEF Y!Specs, Y!Empty
<1>9. CASE key = "securityOpt"
  BY <1>2, <1>3, <1>9 DEF Y!Specs, Y!Empty
<1>10. CASE key = "mounts"
  BY <1>2, <1>3, <1>10 DEF Y!Specs, Y!Empty
<1>11. CASE key = "runArgs"
  BY <1>2, <1>3, <1>11 DEF Y!Specs, Y!Empty
<1>12. CASE key = "dockerfile"
  BY <1>2, <1>3, <1>12 DEF Y!Specs, Y!Empty
<1>13. CASE key = "context"
  BY <1>2, <1>3, <1>13 DEF Y!Specs, Y!Empty
<1>14. CASE key = "workspaceFolder"
  BY <1>2, <1>3, <1>14 DEF Y!Specs, Y!Empty
<1>15. CASE key = "workspaceMount"
  BY <1>2, <1>3, <1>15 DEF Y!Specs, Y!Empty
<1>16. CASE key = "shadowImages"
  BY <1>2, <1>3, <1>16 DEF Y!Specs, Y!Empty
<1>17. CASE key = "memory"
  BY <1>2, <1>3, <1>17 DEF Y!Specs, Y!Empty
<1> QED
  BY <1>4, <1>5, <1>6, <1>7, <1>8, <1>9, <1>10, <1>11, <1>12, <1>13, <1>14, <1>15, <1>16, <1>17

-----------------------------------------------------------------------------
(* What holds of each place of a list when it holds of those behind it.    *)
LEMMA FromTheEnd ==
  ASSUME NEW last \in Nat, NEW Good,
         \A i \in 1..last : (\A j \in (i + 1)..last : j \in Good) => i \in Good
  PROVE  \A i \in 1..last : i \in Good
<1> DEFINE Bad == (1..last) \ Good
<1>1. SUFFICES ASSUME Bad # {} PROVE FALSE
  OBVIOUS
<1>2. Bad \in SUBSET Nat /\ IsFiniteSet(Bad)
  <2>1. Bad \in SUBSET (1..last) /\ Bad \in SUBSET Nat
    OBVIOUS
  <2>2. IsFiniteSet(1..last)
    BY FS_Interval
  <2> HIDE DEF Bad
  <2> QED BY <2>1, <2>2, FS_Subset
<1>3. PICK i \in Bad : \A n \in Bad : n <= i
  <2> HIDE DEF Bad
  <2> QED BY <1>1, <1>2, LargestExists
<1> QED BY <1>3

(* A list can be read backwards: what is said of each place may depend on  *)
(* what is said of those behind it.                                        *)
LooksBack(last, Said, says) ==
  /\ says \in [1..last -> [[1..last -> Said] -> Said]]
  /\ \A i \in 1..last : \A g, h \in [1..last -> Said] :
       (\A j \in (i + 1)..last : g[j] = h[j]) => says[i][g] = says[i][h]
IsSaid(last, Said, says) ==
  \E read \in [1..last -> Said] : \A i \in 1..last : read[i] = says[i][read]

LEMMA ReadingExists ==
  ASSUME NEW last \in Nat, NEW Said, NEW nothing \in Said, NEW says, LooksBack(last, Said, says)
  PROVE  IsSaid(last, Said, says)
<1> USE DEF LooksBack, IsSaid
<1> DEFINE From(i) == \E g \in [1..last -> Said] : \A j \in i..last : g[j] = says[j][g]
<1>1. ASSUME NEW i \in 1..last, From(i + 1) PROVE From(i)
  <2>1. PICK g \in [1..last -> Said] : \A j \in (i + 1)..last : g[j] = says[j][g]
    BY <1>1
  <2> DEFINE h == [g EXCEPT ![i] = says[i][g]]
  <2>2. /\ h \in [1..last -> Said]
        /\ h[i] = says[i][g]
        /\ \A j \in 1..last : j # i => h[j] = g[j]
    OBVIOUS
  <2> HIDE DEF h
  <2>3. ASSUME NEW j \in i..last PROVE h[j] = says[j][h]
    <3>1. j \in 1..last /\ \A k \in (j + 1)..last : k \in 1..last /\ k # i
      OBVIOUS
    <3>2. says[j][g] = says[j][h]
      <4>1. \A k \in (j + 1)..last : g[k] = h[k]
        BY <2>2, <3>1
      <4> QED BY <2>2, <3>1, <4>1
    <3>3. CASE j = i
      BY <2>2, <3>2, <3>3
    <3>4. CASE j # i
      <4>1. j \in (i + 1)..last
        BY <3>4
      <4> QED BY <2>1, <2>2, <3>1, <3>2, <3>4, <4>1
    <3> QED BY <3>3, <3>4
  <2> QED BY <2>2, <2>3
<1>2. From(last + 1)
  <2>1. [j \in 1..last |-> nothing] \in [1..last -> Said]
    OBVIOUS
  <2>2. \A j \in (last + 1)..last : FALSE
    OBVIOUS
  <2> QED BY <2>1, <2>2
<1> DEFINE Good == {i \in 1..last : From(i)}
<1>3. ASSUME NEW i \in 1..last, \A j \in (i + 1)..last : j \in Good PROVE i \in Good
  <2> HIDE DEF From
  <2>1. CASE i = last
    BY <1>1, <1>2, <2>1
  <2>2. CASE i # last
    <3>1. i + 1 \in (i + 1)..last
      BY <2>2
    <3>2. From(i + 1)
      BY <1>3, <3>1
    <3> QED BY <1>1, <3>2
  <2> QED BY <2>1, <2>2
<1>4. From(1)
  <2> HIDE DEF From
  <2>1. CASE last = 0
    BY <1>2, <2>1
  <2>2. CASE last # 0
    <3>1. 1 \in 1..last
      BY <2>2
    <3> HIDE DEF Good
    <3>2. 1 \in Good
      BY <1>3, <3>1, FromTheEnd
    <3> QED BY <3>2 DEF Good
  <2> QED BY <2>1, <2>2
<1> QED BY <1>4

-----------------------------------------------------------------------------
(* Arguments: what a spec's are, and those desolate writes itself.          *)
Word == STRING \union {"none", "image", "/path", "--tmpfs"}
Text == [sep : Word, key : Word, value : Word]
Arg == {arg \in [flag : Word, inline : Seq(Text)] :
          Len(arg.inline) <= 1 /\ (arg.flag = "none" => arg.inline # <<>>)}

LEMMA ArgumentsAreArgs == Seq(Y!Arguments) \subseteq Seq(Arg)
<1>1. Y!Options \subseteq Text
  BY DEF Y!Options, Text, Word
<1>2. Seq(Y!Options) \subseteq Seq(Text)
  BY <1>1
<1>3. Y!Arguments \subseteq Arg
  BY <1>2 DEF Y!Arguments, Arg, Word
<1> QED BY <1>3

Pairs == Y!Values \X Text
Allowing == [ok : BOOLEAN, pairs : SUBSET Pairs]
Places(args) == 1..(Len(args) + 1)
Reads(read, args) == read = [i \in Places(args) |-> Y!allowedFrom(args, read, i)]

LEMMA ArgumentOf ==
  ASSUME NEW args \in Seq(Arg), NEW i \in 1..Len(args)
  PROVE  /\ args[i].flag \in Word
         /\ args[i].inline \in Seq(Text)
         /\ args[i].inline # <<>> => args[i].inline[1] \in Text
         /\ args[i].flag = "none" => args[i].inline # <<>>
<1>1. args[i] \in Arg
  OBVIOUS
<1>2. /\ args[i].flag \in Word /\ args[i].inline \in Seq(Text)
      /\ args[i].flag = "none" => args[i].inline # <<>>
  BY <1>1 DEF Arg
<1>3. args[i].inline # <<>> => args[i].inline[1] \in Text
  <2>1. ASSUME NEW text \in Seq(Text), text # <<>> PROVE text[1] \in Text
    BY <2>1
  <2> QED BY <1>2, <2>1
<1> QED BY <1>2, <1>3

LEMMA AllowingType == ASSUME NEW r \in Allowing, NEW pair \in Pairs
  PROVE  /\ [r EXCEPT !.pairs = @ \union {pair}] \in Allowing
         /\ [r EXCEPT !.pairs = @ \union {pair}].ok = r.ok
         /\ [r EXCEPT !.pairs = @ \union {pair}].pairs = r.pairs \union {pair}
BY DEF Allowing

LEMMA AllowedFromType ==
  ASSUME NEW args \in Seq(Arg), NEW i \in Places(args),
         NEW read, \A j \in (i + 1)..(Len(args) + 1) : read[j] \in Allowing
  PROVE  Y!allowedFrom(args, read, i) \in Allowing
<1>1. /\ Y!Refused \in Allowing
      /\ [ok |-> TRUE, pairs |-> {}] \in Allowing
  BY DEF Allowing, Y!Refused
<1>2. CASE i > Len(args)
  BY <1>1, <1>2 DEF Y!allowedFrom
<1>3. CASE ~(i > Len(args))
  <2>1. i \in 1..Len(args) /\ i + 1 \in (i + 1)..(Len(args) + 1)
    BY <1>3 DEF Places
  <2>2. read[i + 1] \in Allowing
    BY <2>1
  <2>3. CASE args[i].flag \in Y!Bools
    BY <1>1, <1>3, <2>2, <2>3 DEF Y!allowedFrom
  <2>4. CASE args[i].flag \notin Y!Bools /\ args[i].flag \notin Y!Values
    BY <1>1, <1>3, <2>4 DEF Y!allowedFrom
  <2>5. CASE args[i].flag \notin Y!Bools /\ args[i].flag \in Y!Values /\ args[i].inline # <<>>
    <3>1. <<args[i].flag, args[i].inline[1]>> \in Pairs
      BY <2>1, <2>5, ArgumentOf DEF Pairs
    <3>2. Y!allowedFrom(args, read, i) = [read[i + 1] EXCEPT !.pairs = @ \union {<<args[i].flag, args[i].inline[1]>>}]
      BY <1>3, <2>5, Zenon DEF Y!allowedFrom
    <3> QED BY <2>2, <3>1, <3>2, AllowingType
  <2>6. CASE args[i].flag \notin Y!Bools /\ args[i].flag \in Y!Values /\ args[i].inline = <<>>
    <3>1. CASE i = Len(args) \/ args[i + 1].flag # "none"
      BY <1>1, <1>3, <2>6, <3>1 DEF Y!allowedFrom, Y!valueBehind
    <3>2. CASE ~(i = Len(args) \/ args[i + 1].flag # "none")
      <4>1. i + 1 \in 1..Len(args) /\ i + 2 \in (i + 1)..(Len(args) + 1)
        BY <2>1, <3>2
      <4>2. <<args[i].flag, args[i + 1].inline[1]>> \in Pairs
        BY <2>6, <3>2, <4>1, ArgumentOf DEF Pairs
      <4>3. Y!allowedFrom(args, read, i) = [read[i + 2] EXCEPT !.pairs = @ \union {<<args[i].flag, args[i + 1].inline[1]>>}]
        BY <1>3, <2>6, <3>2, Zenon DEF Y!allowedFrom, Y!valueBehind
      <4> QED BY <4>1, <4>2, <4>3, AllowingType
    <3> QED BY <3>1, <3>2
  <2> QED BY <2>3, <2>4, <2>5, <2>6
<1> QED BY <1>2, <1>3

LEMMA AllowedReading ==
  ASSUME NEW args \in Seq(Arg)
  PROVE  \E read : Reads(read, args) /\ Y!allowedPairs(args) = read[1]
<1> DEFINE last == Len(args) + 1
           says == [i \in 1..last |-> [g \in [1..last -> Allowing] |-> Y!allowedFrom(args, g, i)]]
           read == CHOOSE g : Reads(g, args)
<1>1. last \in Nat
  OBVIOUS
<1>2. says \in [1..last -> [[1..last -> Allowing] -> Allowing]]
  <2> SUFFICES ASSUME NEW i \in 1..last, NEW g \in [1..last -> Allowing]
               PROVE  Y!allowedFrom(args, g, i) \in Allowing
    OBVIOUS
  <2>1. \A j \in (i + 1)..last : g[j] \in Allowing
    OBVIOUS
  <2> QED BY <2>1, AllowedFromType DEF Places
<1>3. ASSUME NEW i \in 1..last, NEW g \in [1..last -> Allowing], NEW h \in [1..last -> Allowing],
             \A j \in (i + 1)..last : g[j] = h[j]
      PROVE  says[i][g] = says[i][h]
  <2>1. Y!allowedFrom(args, g, i) = Y!allowedFrom(args, h, i)
    <3>1. CASE i > Len(args)
      BY <3>1 DEF Y!allowedFrom
    <3>2. CASE i = Len(args)
      <4>1. g[i + 1] = h[i + 1]
        BY <1>3, <3>2
      <4> QED BY <3>2, <4>1, Zenon DEF Y!allowedFrom, Y!valueBehind
    <3>3. CASE i < Len(args)
      <4>1. g[i + 1] = h[i + 1] /\ g[i + 2] = h[i + 2]
        BY <1>3, <3>3
      <4> QED BY <4>1, Zenon DEF Y!allowedFrom, Y!valueBehind
    <3> QED BY <3>1, <3>2, <3>3
  <2> QED BY <2>1
<1>4. [ok |-> TRUE, pairs |-> {}] \in Allowing
  BY DEF Allowing
<1>5. IsSaid(last, Allowing, says)
  <2> HIDE DEF says, last
  <2>1. LooksBack(last, Allowing, says)
    BY <1>2, <1>3, Zenon DEF LooksBack
  <2> QED BY <1>1, <1>4, <2>1, ReadingExists, Zenon
<1>6. \E g : Reads(g, args)
  <2>1. PICK g \in [1..last -> Allowing] : \A i \in 1..last : g[i] = says[i][g]
    BY <1>5 DEF IsSaid
  <2>2. g = [i \in 1..last |-> Y!allowedFrom(args, g, i)]
    BY <2>1
  <2> QED BY <2>2 DEF Reads, Places
<1>7. Reads(read, args)
  BY <1>6
<1>8. Y!allowedPairs(args) = read[1]
  BY DEF Y!allowedPairs, Reads, Places
<1> QED BY <1>7, <1>8

-----------------------------------------------------------------------------
(* What docker makes of them. *)
Image == [flag |-> "none", inline |-> <<[Y!Unspelled EXCEPT !.key = "image"]>>]
Before(args) == Append(args, Image)
Docker == [flags : SUBSET (Word \X Text), image : Word]
DockerPlaces(all) == 1..(Len(all) + 2)
DockerReading(read, all) == read = [i \in DockerPlaces(all) |-> Y!dockerFrom(all, read, i)]

LEMMA Words ==
  /\ "none" \in Word
  /\ "image" \in Word
  /\ "/path" \in Word
  /\ "--tmpfs" \in Word
BY DEF Word

LEMMA ImageIsArgument == Image \in Arg /\ Image.flag = "none" /\ Image.inline[1].key = "image"
<1> DEFINE text == [Y!Unspelled EXCEPT !.key = "image"]
<1>1. text \in Text /\ text.key = "image"
  BY Words DEF Y!Unspelled, Text
<1> HIDE DEF text
<1>2. <<text>> \in Seq(Text) /\ Len(<<text>>) = 1 /\ <<text>>[1] = text /\ <<text>> # <<>>
  BY <1>1
<1>3. Image = [flag |-> "none", inline |-> <<text>>]
  BY DEF Image, text
<1>4. Image.flag = "none" /\ Image.inline = <<text>>
  BY <1>3
<1>5. Image \in [flag : Word, inline : Seq(Text)]
  BY <1>2, <1>3, Words
<1>6. Len(Image.inline) <= 1 /\ Image.inline # <<>> /\ Image.inline[1] = text
  BY <1>2, <1>4
<1>7. Image \in Arg
  BY <1>5, <1>6, Zenon DEF Arg
<1> QED BY <1>1, <1>4, <1>6, <1>7, Zenon

LEMMA BeforeHas ==
  ASSUME NEW args \in Seq(Arg)
  PROVE  /\ Before(args) \in Seq(Arg)
         /\ Len(Before(args)) = Len(args) + 1
         /\ \A i \in 1..Len(args) : Before(args)[i] = args[i]
         /\ Before(args)[Len(args) + 1] = Image
BY ImageIsArgument DEF Before

(* Docker's reading of a place, case by case.                              *)
Following(all, i) ==
  IF i < Len(all) /\ all[i + 1].flag = "none" THEN all[i + 1].inline[1] ELSE Y!Unspelled
Inline(all, i) == IF all[i].inline = <<>> THEN Y!Unspelled ELSE all[i].inline[1]
TakesNext(all, i) == all[i].flag \in Y!Takes /\ all[i].inline = <<>>
Add(read, pair) == [read EXCEPT !.flags = @ \union {pair}]

LEMMA DockerFromEnd ==
  ASSUME NEW all, NEW read, NEW i, i > Len(all)
  PROVE  Y!dockerFrom(all, read, i) = [flags |-> {}, image |-> "none"]
BY Zenon DEF Y!dockerFrom

LEMMA DockerFromBare ==
  ASSUME NEW all, NEW read, NEW i, ~(i > Len(all)), all[i].flag = "none"
  PROVE  Y!dockerFrom(all, read, i) = [flags |-> {}, image |-> all[i].inline[1].key]
<1>1. all[i].flag \notin Y!Takes
  BY DEF Y!Takes, Y!Values
<1> QED BY <1>1, Zenon DEF Y!dockerFrom

LEMMA DockerFromNext ==
  ASSUME NEW all, NEW read, NEW i, ~(i > Len(all)), TakesNext(all, i)
  PROVE  Y!dockerFrom(all, read, i) = Add(read[i + 2], <<all[i].flag, Following(all, i)>>)
<1>1. all[i].flag # "none"
  BY DEF TakesNext, Y!Takes, Y!Values
<1>2. all[i].flag \in Y!Takes /\ all[i].inline = <<>>
  BY DEF TakesNext
<1> QED BY <1>1, <1>2, Zenon DEF Y!dockerFrom, Add, Following

LEMMA DockerFromInline ==
  ASSUME NEW all, NEW read, NEW i, ~(i > Len(all)), all[i].flag # "none", ~TakesNext(all, i)
  PROVE  Y!dockerFrom(all, read, i) = Add(read[i + 1], <<all[i].flag, Inline(all, i)>>)
<1>1. ~(all[i].flag \in Y!Takes /\ all[i].inline = <<>>)
  BY DEF TakesNext
<1> QED BY <1>1, Zenon DEF Y!dockerFrom, Add, Inline

LEMMA WithIs == ASSUME NEW r \in Docker, NEW flag \in Word, NEW text \in Text
  PROVE  /\ Add(r, <<flag, text>>) \in Docker
         /\ Add(r, <<flag, text>>).image = r.image
         /\ Add(r, <<flag, text>>).flags = r.flags \union {<<flag, text>>}
BY DEF Docker, Add

LEMMA TextsOf ==
  ASSUME NEW all \in Seq(Arg), NEW i \in 1..Len(all)
  PROVE  Following(all, i) \in Text /\ Inline(all, i) \in Text
<1>1. Y!Unspelled \in Text
  BY Words DEF Y!Unspelled, Text
<1>2. Following(all, i) \in Text
  <2>1. CASE i < Len(all) /\ all[i + 1].flag = "none"
    <3>1. i + 1 \in 1..Len(all)
      BY <2>1
    <3> QED BY <2>1, <3>1, ArgumentOf DEF Following
  <2> QED BY <1>1, <2>1 DEF Following
<1> QED BY <1>1, <1>2, ArgumentOf DEF Inline

LEMMA DockerFromType ==
  ASSUME NEW all \in Seq(Arg), NEW i \in DockerPlaces(all),
         NEW read, \A j \in (i + 1)..(Len(all) + 2) : read[j] \in Docker
  PROVE  Y!dockerFrom(all, read, i) \in Docker
<1>2. CASE i > Len(all)
  BY <1>2, DockerFromEnd, Words DEF Docker
<1>3. CASE ~(i > Len(all))
  <2>1. i \in 1..Len(all) /\ i + 1 \in (i + 1)..(Len(all) + 2) /\ i + 2 \in (i + 1)..(Len(all) + 2)
    BY <1>3 DEF DockerPlaces
  <2>2. read[i + 1] \in Docker /\ read[i + 2] \in Docker
    BY <2>1
  <2>3. CASE all[i].flag = "none"
    <3>1. all[i].inline[1].key \in Word
      BY <2>1, <2>3, ArgumentOf DEF Text
    <3> QED BY <1>3, <2>3, <3>1, DockerFromBare DEF Docker
  <2>4. all[i].flag \in Word /\ Following(all, i) \in Text /\ Inline(all, i) \in Text
    BY <2>1, ArgumentOf, TextsOf
  <2>5. CASE TakesNext(all, i)
    <3>1. Add(read[i + 2], <<all[i].flag, Following(all, i)>>) \in Docker
      BY <2>2, <2>4, WithIs, Zenon
    <3> QED BY <1>3, <2>5, <3>1, DockerFromNext, Zenon
  <2>6. CASE all[i].flag # "none" /\ ~TakesNext(all, i)
    <3>1. Add(read[i + 1], <<all[i].flag, Inline(all, i)>>) \in Docker
      BY <2>2, <2>4, WithIs, Zenon
    <3> QED BY <1>3, <2>6, <3>1, DockerFromInline, Zenon
  <2> QED BY <2>3, <2>5, <2>6
<1> QED BY <1>2, <1>3

LEMMA DockerReadingIs ==
  ASSUME NEW args \in Seq(Arg)
  PROVE  \E read : DockerReading(read, Before(args)) /\ Y!DockerReads(args) = read[1]
<1> DEFINE all == Before(args)
           last == Len(all) + 2
           says == [i \in 1..last |-> [g \in [1..last -> Docker] |-> Y!dockerFrom(all, g, i)]]
           read == CHOOSE g : DockerReading(g, all)
<1>1. last \in Nat /\ all \in Seq(Arg)
  BY BeforeHas
<1> HIDE DEF all
<1>2. says \in [1..last -> [[1..last -> Docker] -> Docker]]
  <2> SUFFICES ASSUME NEW i \in 1..last, NEW g \in [1..last -> Docker]
               PROVE  Y!dockerFrom(all, g, i) \in Docker
    OBVIOUS
  <2>1. \A j \in (i + 1)..last : g[j] \in Docker
    BY <1>1
  <2> QED BY <1>1, <2>1, DockerFromType DEF DockerPlaces
<1>3. ASSUME NEW i \in 1..last, NEW g \in [1..last -> Docker], NEW h \in [1..last -> Docker],
             \A j \in (i + 1)..last : g[j] = h[j]
      PROVE  says[i][g] = says[i][h]
  <2>1. Y!dockerFrom(all, g, i) = Y!dockerFrom(all, h, i)
    <3>1. CASE i > Len(all)
      BY <3>1, DockerFromEnd
    <3>2. CASE ~(i > Len(all))
      <4>1. g[i + 1] = h[i + 1] /\ g[i + 2] = h[i + 2]
        BY <1>1, <1>3, <3>2
      <4>2. CASE all[i].flag = "none"
        BY <3>2, <4>2, DockerFromBare
      <4>3. CASE TakesNext(all, i)
        BY <3>2, <4>1, <4>3, DockerFromNext
      <4>4. CASE all[i].flag # "none" /\ ~TakesNext(all, i)
        BY <3>2, <4>1, <4>4, DockerFromInline
      <4> QED BY <4>2, <4>3, <4>4
    <3> QED BY <1>1, <3>1, <3>2
  <2> QED BY <2>1
<1>4. [flags |-> {}, image |-> "none"] \in Docker
  BY Words DEF Docker
<1>5. IsSaid(last, Docker, says)
  <2> HIDE DEF says, last
  <2>1. LooksBack(last, Docker, says)
    BY <1>2, <1>3, Zenon DEF LooksBack
  <2> QED BY <1>1, <1>4, <2>1, ReadingExists, Zenon
<1>6. \E g : DockerReading(g, all)
  <2>1. PICK g \in [1..last -> Docker] : \A i \in 1..last : g[i] = says[i][g]
    BY <1>5 DEF IsSaid
  <2>2. g = [i \in 1..last |-> Y!dockerFrom(all, g, i)]
    BY <2>1
  <2> QED BY <2>2 DEF DockerReading, DockerPlaces
<1>7. DockerReading(read, all)
  BY <1>6
<1>8. Y!DockerReads(args) = read[1]
  BY DEF Y!DockerReads, DockerReading, DockerPlaces, all, Before, Image
<1> QED BY <1>7, <1>8 DEF all

-----------------------------------------------------------------------------
(* The two readings agree.                                                 *)
Allow(read, pair) == [read EXCEPT !.pairs = @ \union {pair}]
(* The three ways in which an argument is let through.                     *)
AsBool(args, read, i) ==
  /\ args[i].flag \in Y!Bools /\ Y!takesNoValue(args[i])
  /\ Y!allowedFrom(args, read, i) = read[i + 1]
AsInline(args, read, i) ==
  /\ args[i].flag \in Y!Values /\ args[i].inline # <<>>
  /\ Y!allowedFrom(args, read, i) = Allow(read[i + 1], <<args[i].flag, args[i].inline[1]>>)
AsNext(args, read, i) ==
  /\ args[i].flag \in Y!Values /\ args[i].inline = <<>> /\ i # Len(args) /\ args[i + 1].flag = "none"
  /\ Y!allowedFrom(args, read, i) = Allow(read[i + 2], <<args[i].flag, args[i + 1].inline[1]>>)

LEMMA LetThrough ==
  ASSUME NEW args, NEW read, NEW i, ~(i > Len(args)), Y!allowedFrom(args, read, i).ok
  PROVE  AsBool(args, read, i) \/ AsInline(args, read, i) \/ AsNext(args, read, i)
<1>1. ~Y!Refused.ok
  BY DEF Y!Refused
<1>2. CASE args[i].flag \in Y!Bools
  BY <1>1, <1>2, Zenon DEF Y!allowedFrom, AsBool
<1>3. CASE args[i].flag \notin Y!Bools /\ args[i].flag \notin Y!Values
  BY <1>1, <1>3, Zenon DEF Y!allowedFrom
<1>4. CASE args[i].flag \notin Y!Bools /\ args[i].flag \in Y!Values /\ args[i].inline # <<>>
  BY <1>4, Zenon DEF Y!allowedFrom, AsInline, Allow
<1>5. CASE args[i].flag \notin Y!Bools /\ args[i].flag \in Y!Values /\ args[i].inline = <<>>
  BY <1>1, <1>5, Zenon DEF Y!allowedFrom, Y!valueBehind, AsNext, Allow
<1> QED BY <1>2, <1>3, <1>4, <1>5

LEMMA AllowedTyped ==
  ASSUME NEW args \in Seq(Arg), NEW read, Reads(read, args)
  PROVE  \A i \in Places(args) : read[i] \in Allowing
<1> DEFINE last == Len(args) + 1
           Good == {i \in 1..last : read[i] \in Allowing}
<1>1. last \in Nat
  OBVIOUS
<1>2. ASSUME NEW i \in 1..last, \A j \in (i + 1)..last : j \in Good PROVE i \in Good
  <2>1. \A j \in (i + 1)..last : read[j] \in Allowing
    BY <1>2
  <2>2. Y!allowedFrom(args, read, i) \in Allowing
    BY <2>1, AllowedFromType DEF Places
  <2>3. read[i] = Y!allowedFrom(args, read, i)
    BY DEF Reads, Places
  <2> QED BY <2>2, <2>3
<1>3. \A i \in 1..last : i \in Good
  <2> HIDE DEF last, Good
  <2> QED BY <1>1, <1>2, FromTheEnd
<1> QED BY <1>3 DEF Places

LEMMA DockerTyped ==
  ASSUME NEW all \in Seq(Arg), NEW read, DockerReading(read, all)
  PROVE  \A i \in DockerPlaces(all) : read[i] \in Docker
<1> DEFINE last == Len(all) + 2
           Good == {i \in 1..last : read[i] \in Docker}
<1>1. last \in Nat
  OBVIOUS
<1>2. ASSUME NEW i \in 1..last, \A j \in (i + 1)..last : j \in Good PROVE i \in Good
  <2>1. \A j \in (i + 1)..last : read[j] \in Docker
    BY <1>2
  <2>2. Y!dockerFrom(all, read, i) \in Docker
    BY <2>1, DockerFromType DEF DockerPlaces
  <2>3. read[i] = Y!dockerFrom(all, read, i)
    BY DEF DockerReading, DockerPlaces
  <2> QED BY <2>2, <2>3
<1>3. \A i \in 1..last : i \in Good
  <2> HIDE DEF last, Good
  <2> QED BY <1>1, <1>2, FromTheEnd
<1> QED BY <1>3 DEF DockerPlaces

LEMMA AllowIs == ASSUME NEW r \in Allowing, NEW pair \in Pairs
  PROVE  Allow(r, pair).ok = r.ok /\ Allow(r, pair).pairs = r.pairs \union {pair}
BY DEF Allowing, Allow

(* What the policy lets through docker reads alike, but for the boolean     *)
(* flags, and the image behind it all as the image.                        *)
Agree(allowed, taken) ==
  allowed.ok =>
    /\ taken.image = "image"
    /\ \A pair \in allowed.pairs : pair \in taken.flags
    /\ \A pair \in taken.flags : pair \in allowed.pairs \/ pair[1] \in Y!Bools

LEMMA AgreeOnOne ==
  ASSUME NEW r \in Allowing, NEW d \in Docker, Agree(r, d), NEW flag \in Y!Values \cap Word, NEW text \in Text
  PROVE  Agree(Allow(r, <<flag, text>>), Add(d, <<flag, text>>))
<1>1. <<flag, text>> \in Pairs
  BY DEF Pairs
<1>2. /\ Allow(r, <<flag, text>>).ok = r.ok
      /\ Allow(r, <<flag, text>>).pairs = r.pairs \union {<<flag, text>>}
  BY <1>1, AllowIs, Zenon
<1>3. /\ Add(d, <<flag, text>>).image = d.image
      /\ Add(d, <<flag, text>>).flags = d.flags \union {<<flag, text>>}
  BY WithIs
<1>4. ASSUME NEW pair \in r.pairs \union {<<flag, text>>}, r.ok PROVE pair \in d.flags \union {<<flag, text>>}
  BY <1>4 DEF Agree
<1>5. ASSUME NEW pair \in d.flags \union {<<flag, text>>}, r.ok
      PROVE  pair \in r.pairs \union {<<flag, text>>} \/ pair[1] \in Y!Bools
  BY <1>5 DEF Agree
<1>6. r.ok => d.image = "image"
  BY DEF Agree
<1> QED BY <1>2, <1>3, <1>4, <1>5, <1>6, Zenon DEF Agree

LEMMA ReadAlike ==
  ASSUME NEW args \in Seq(Arg), NEW allowed, Reads(allowed, args),
         NEW taken, DockerReading(taken, Before(args))
  PROVE  \A i \in Places(args) : Agree(allowed[i], taken[i])
<1> DEFINE last == Len(args) + 1
           all == Before(args)
           Good == {i \in 1..last : Agree(allowed[i], taken[i])}
<1>1. /\ all \in Seq(Arg) /\ Len(all) = last /\ last \in Nat
      /\ \A i \in 1..Len(args) : all[i] = args[i]
      /\ all[last] = Image
  BY BeforeHas
<1> HIDE DEF all
<1>2. \A i \in 1..last : allowed[i] \in Allowing
  BY AllowedTyped DEF Places
<1>0. DockerReading(taken, all)
  BY DEF all
<1>9. DockerPlaces(all) = 1..(last + 2)
  BY <1>1 DEF DockerPlaces
<1>3. \A i \in 1..(last + 2) : taken[i] \in Docker
  <2>1. \A i \in DockerPlaces(all) : taken[i] \in Docker
    BY <1>0, <1>1, DockerTyped
  <2> QED BY <1>9, <2>1, Zenon
<1>4. \A i \in 1..last : allowed[i] = Y!allowedFrom(args, allowed, i)
  BY DEF Reads, Places
<1>5. \A i \in 1..last : taken[i] = Y!dockerFrom(all, taken, i)
  <2>1. taken = [i \in 1..(last + 2) |-> Y!dockerFrom(all, taken, i)]
    BY <1>0, <1>9, Zenon DEF DockerReading
  <2>2. \A i \in 1..last : i \in 1..(last + 2)
    BY <1>1
  <2> QED BY <2>1, <2>2, Zenon
<1>6. ASSUME NEW i \in 1..last, \A j \in (i + 1)..last : j \in Good PROVE i \in Good
  <2>1. CASE i = last
    <3>1. i > Len(args) /\ ~(i > Len(all)) /\ all[i] = Image
      BY <1>1, <2>1
    <3>2. allowed[i] = [ok |-> TRUE, pairs |-> {}]
      BY <1>4, <3>1 DEF Y!allowedFrom
    <3>3. Y!dockerFrom(all, taken, i) = [flags |-> {}, image |-> "image"]
      BY <3>1, ImageIsArgument, DockerFromBare
    <3> QED BY <1>5, <3>2, <3>3 DEF Agree
  <2>2. CASE i # last /\ allowed[i].ok
    <3>1. /\ ~(i > Len(args)) /\ ~(i > Len(all)) /\ i \in 1..Len(args)
          /\ i + 1 \in 1..last /\ i + 1 \in (i + 1)..last
      BY <1>1, <2>2
    <3>2. all[i] = args[i] /\ args[i].flag \in Word /\ Inline(all, i) \in Text /\ Following(all, i) \in Text
      BY <1>1, <3>1, ArgumentOf, TextsOf
    <3>3. Agree(allowed[i + 1], taken[i + 1])
      BY <1>6, <3>1
    <3>4. allowed[i + 1] \in Allowing /\ taken[i + 1] \in Docker
      BY <1>2, <1>3, <3>1
    <3>5. CASE AsBool(args, allowed, i)
      <4>1. args[i].flag \in Y!Bools /\ allowed[i] = allowed[i + 1]
        BY <1>4, <3>5 DEF AsBool
      <4>2. ~TakesNext(all, i) /\ all[i].flag # "none"
        BY <3>2, <4>1 DEF TakesNext, Y!Takes, Y!Values, Y!Bools
      <4>3. taken[i] = Add(taken[i + 1], <<all[i].flag, Inline(all, i)>>)
        BY <1>5, <3>1, <4>2, DockerFromInline
      <4>4. /\ taken[i].image = taken[i + 1].image
            /\ taken[i].flags = taken[i + 1].flags \union {<<all[i].flag, Inline(all, i)>>}
        <5>1. all[i].flag \in Word
          BY <3>2
        <5>2. /\ Add(taken[i + 1], <<all[i].flag, Inline(all, i)>>).image = taken[i + 1].image
              /\ Add(taken[i + 1], <<all[i].flag, Inline(all, i)>>).flags =
                   taken[i + 1].flags \union {<<all[i].flag, Inline(all, i)>>}
          BY <3>2, <3>4, <5>1, WithIs
        <5> QED BY <4>3, <5>2, Zenon
      <4>5. <<all[i].flag, Inline(all, i)>>[1] \in Y!Bools
        BY <3>2, <4>1
      <4>7. Agree(allowed[i], taken[i])
        BY <3>3, <4>1, <4>4, <4>5 DEF Agree
      <4> QED BY <4>7
    <3>6. CASE AsInline(args, allowed, i)
      <4>1. /\ args[i].flag \in Y!Values /\ args[i].inline # <<>>
            /\ allowed[i] = Allow(allowed[i + 1], <<args[i].flag, args[i].inline[1]>>)
        BY <1>4, <3>6 DEF AsInline
      <4>2. ~TakesNext(all, i) /\ all[i].flag # "none"
        BY <3>2, <4>1 DEF TakesNext, Y!Values
      <4>3. Inline(all, i) = args[i].inline[1]
        BY <3>2, <4>1 DEF Inline
      <4>4. taken[i] = Add(taken[i + 1], <<args[i].flag, args[i].inline[1]>>)
        BY <1>5, <3>1, <3>2, <4>2, <4>3, DockerFromInline
      <4>5. Agree(allowed[i], taken[i])
        BY <3>2, <3>3, <3>4, <4>1, <4>3, <4>4, AgreeOnOne
      <4> QED BY <4>5
    <3>7. CASE AsNext(args, allowed, i)
      <4>1. /\ args[i].flag \in Y!Values /\ args[i].inline = <<>> /\ i # Len(args) /\ args[i + 1].flag = "none"
            /\ allowed[i] = Allow(allowed[i + 2], <<args[i].flag, args[i + 1].inline[1]>>)
        BY <1>4, <3>7 DEF AsNext
      <4>2. i + 1 \in 1..Len(args) /\ i + 2 \in 1..last /\ i + 2 \in (i + 1)..last /\ i < Len(all)
        BY <1>1, <3>1, <4>1
      <4>3. TakesNext(all, i)
        BY <3>2, <4>1 DEF TakesNext, Y!Takes
      <4>4. all[i + 1] = args[i + 1]
        BY <1>1, <4>2
      <4>5. Following(all, i) = args[i + 1].inline[1]
        BY <4>1, <4>2, <4>4 DEF Following
      <4>6. taken[i] = Add(taken[i + 2], <<args[i].flag, args[i + 1].inline[1]>>)
        BY <1>5, <3>1, <3>2, <4>3, <4>5, DockerFromNext
      <4>7. Agree(allowed[i + 2], taken[i + 2]) /\ allowed[i + 2] \in Allowing /\ taken[i + 2] \in Docker
        BY <1>2, <1>3, <1>6, <4>2
      <4>8. Agree(allowed[i], taken[i])
        BY <3>2, <4>1, <4>5, <4>6, <4>7, AgreeOnOne
      <4> QED BY <4>8
    <3> QED BY <1>4, <2>2, <3>1, <3>5, <3>6, <3>7, LetThrough
  <2>3. CASE ~allowed[i].ok
    BY <2>3 DEF Agree
  <2> QED BY <2>1, <2>2, <2>3
<1>7. \A i \in 1..last : i \in Good
  <2> HIDE DEF last, Good
  <2> QED BY <1>1, <1>6, FromTheEnd
<1> QED BY <1>7 DEF Places

-----------------------------------------------------------------------------
(* The mask behind the arguments adds its itsOwn pair and takes nothing away.  *)
MaskPath == [Y!Unspelled EXCEPT !.key = "/path"]
Masking == << [flag |-> "--tmpfs", inline |-> <<>>], [flag |-> "none", inline |-> <<MaskPath>>] >>
MaskPair == <<"--tmpfs", MaskPath>>

LEMMA AllowedAsBool ==
  ASSUME NEW args, NEW read, NEW i, ~(i > Len(args)), args[i].flag \in Y!Bools, Y!takesNoValue(args[i])
  PROVE  Y!allowedFrom(args, read, i) = read[i + 1]
BY Zenon DEF Y!allowedFrom

LEMMA AllowedAsInline ==
  ASSUME NEW args, NEW read, NEW i, ~(i > Len(args)), args[i].flag \in Y!Values, args[i].inline # <<>>
  PROVE  Y!allowedFrom(args, read, i) = Allow(read[i + 1], <<args[i].flag, args[i].inline[1]>>)
<1>1. args[i].flag \notin Y!Bools
  BY DEF Y!Values, Y!Bools
<1> QED BY <1>1, Zenon DEF Y!allowedFrom, Allow

LEMMA AllowedAsNext ==
  ASSUME NEW args, NEW read, NEW i, ~(i > Len(args)), args[i].flag \in Y!Values, args[i].inline = <<>>,
         i # Len(args), args[i + 1].flag = "none"
  PROVE  Y!allowedFrom(args, read, i) = Allow(read[i + 2], <<args[i].flag, args[i + 1].inline[1]>>)
<1>1. args[i].flag \notin Y!Bools
  BY DEF Y!Values, Y!Bools
<1> QED BY <1>1, Zenon DEF Y!allowedFrom, Y!valueBehind, Allow

LEMMA MaskingIsArguments == Masking \in Seq(Arg)
<1>1. MaskPath \in Text
  BY Words DEF MaskPath, Y!Unspelled, Text
<1>2. [flag |-> "--tmpfs", inline |-> <<>>] \in Arg
  BY Words DEF Arg
<1>3. [flag |-> "none", inline |-> <<MaskPath>>] \in Arg
  <2>1. <<MaskPath>> \in Seq(Text) /\ Len(<<MaskPath>>) = 1 /\ <<MaskPath>> # <<>>
    BY <1>1
  <2> DEFINE arg == [flag |-> "none", inline |-> <<MaskPath>>]
  <2>2. arg \in [flag : Word, inline : Seq(Text)]
    BY <2>1, Words
  <2>3. arg.inline = <<MaskPath>>
    OBVIOUS
  <2>4. Len(arg.inline) <= 1 /\ arg.inline # <<>>
    BY <2>1, <2>3
  <2> QED BY <2>2, <2>4, Zenon DEF Arg
<1> QED BY <1>2, <1>3 DEF Masking

LEMMA TwoBehind ==
  ASSUME NEW Of, NEW first \in Seq(Of), NEW second \in Seq(Of), Len(second) = 2
  PROVE  /\ first \o second \in Seq(Of)
         /\ Len(first \o second) = Len(first) + 2
         /\ \A i \in 1..Len(first) : (first \o second)[i] = first[i]
         /\ (first \o second)[Len(first) + 1] = second[1]
         /\ (first \o second)[Len(first) + 2] = second[2]
<1>1. /\ first \o second \in Seq(Of)
      /\ Len(first \o second) = Len(first) + 2
      /\ \A i \in 1..Len(first) + 2 : (first \o second)[i] =
             IF i <= Len(first) THEN first[i] ELSE second[i - Len(first)]
  <2>1. /\ first \o second \in Seq(Of)
        /\ Len(first \o second) = Len(first) + Len(second)
        /\ \A i \in 1..Len(first) + Len(second) : (first \o second)[i] =
               IF i <= Len(first) THEN first[i] ELSE second[i - Len(first)]
    BY ConcatProperties, Zenon
  <2> QED BY <2>1, Zenon
<1>2. Len(first) \in Nat
  OBVIOUS
<1>3. /\ Len(first) + 1 \in 1..Len(first) + 2 /\ Len(first) + 2 \in 1..Len(first) + 2
      /\ ~(Len(first) + 1 <= Len(first)) /\ ~(Len(first) + 2 <= Len(first))
      /\ Len(first) + 1 - Len(first) = 1 /\ Len(first) + 2 - Len(first) = 2
  BY <1>2
<1>4. \A i \in 1..Len(first) : i \in 1..Len(first) + 2 /\ i <= Len(first)
  BY <1>2
<1>5. \A i \in 1..Len(first) : (first \o second)[i] = first[i]
  BY <1>1, <1>4, Zenon
<1>6. (first \o second)[Len(first) + 1] = second[Len(first) + 1 - Len(first)]
      /\ (first \o second)[Len(first) + 2] = second[Len(first) + 2 - Len(first)]
  <2>1. \A i \in 1..Len(first) + 2 : ~(i <= Len(first)) => (first \o second)[i] = second[i - Len(first)]
    BY <1>1, Zenon
  <2> DEFINE one == Len(first) + 1
             two == Len(first) + 2
  <2>2. /\ one \in 1..Len(first) + 2 /\ ~(one <= Len(first))
        /\ two \in 1..Len(first) + 2 /\ ~(two <= Len(first))
    BY <1>3
  <2> HIDE DEF one, two
  <2>3. (first \o second)[one] = second[one - Len(first)] /\ (first \o second)[two] = second[two - Len(first)]
    BY <2>1, <2>2, Zenon
  <2> QED BY <2>3 DEF one, two
<1> QED BY <1>1, <1>3, <1>5, <1>6, Zenon

LEMMA BehindIs ==
  ASSUME NEW args \in Seq(Arg)
  PROVE  /\ args \o Masking \in Seq(Arg)
         /\ Len(args \o Masking) = Len(args) + 2
         /\ \A i \in 1..Len(args) : (args \o Masking)[i] = args[i]
         /\ (args \o Masking)[Len(args) + 1] = [flag |-> "--tmpfs", inline |-> <<>>]
         /\ (args \o Masking)[Len(args) + 2] = [flag |-> "none", inline |-> <<MaskPath>>]
<1>1. /\ Len(Masking) = 2 /\ Masking[1] = [flag |-> "--tmpfs", inline |-> <<>>]
      /\ Masking[2] = [flag |-> "none", inline |-> <<MaskPath>>]
  BY DEF Masking
<1>2. args \o Masking \in Seq(Arg) /\ Len(args \o Masking) = Len(args) + 2
      /\ \A i \in 1..Len(args) : (args \o Masking)[i] = args[i]
      /\ (args \o Masking)[Len(args) + 1] = Masking[1]
      /\ (args \o Masking)[Len(args) + 2] = Masking[2]
  <2> HIDE DEF Masking
  <2> QED BY <1>1, MaskingIsArguments, TwoBehind
<1> QED BY <1>1, <1>2

More(r, s) == r.ok => s.ok /\ \A pair : pair \in s.pairs <=> pair \in r.pairs \/ pair = MaskPair

LEMMA MoreOnOne ==
  ASSUME NEW r \in Allowing, NEW s \in Allowing, More(r, s), NEW pair \in Pairs
  PROVE  More(Allow(r, pair), Allow(s, pair))
<1>1. /\ Allow(r, pair).ok = r.ok /\ Allow(r, pair).pairs = r.pairs \union {pair}
      /\ Allow(s, pair).ok = s.ok /\ Allow(s, pair).pairs = s.pairs \union {pair}
  BY AllowIs, Zenon
<1> QED BY <1>1 DEF More

LEMMA MaskAddsItsOwn ==
  ASSUME NEW args \in Seq(Arg), NEW allowed, Reads(allowed, args),
         NEW behind, Reads(behind, args \o Masking)
  PROVE  \A i \in Places(args) : More(allowed[i], behind[i])
<1> DEFINE last == Len(args) + 1
           all == args \o Masking
           Good == {i \in 1..last : More(allowed[i], behind[i])}
<1>1. /\ all \in Seq(Arg) /\ Len(all) = last + 1 /\ last \in Nat
      /\ \A i \in 1..Len(args) : all[i] = args[i]
      /\ all[last] = [flag |-> "--tmpfs", inline |-> <<>>]
      /\ all[last + 1] = [flag |-> "none", inline |-> <<MaskPath>>]
  BY BehindIs
<1>0. Reads(behind, all)
  OBVIOUS
<1> HIDE DEF all
<1>2. \A i \in 1..last : allowed[i] \in Allowing
  BY AllowedTyped DEF Places
<1>9. Places(all) = 1..(last + 2)
  BY <1>1 DEF Places
<1>3. \A i \in 1..(last + 2) : behind[i] \in Allowing
  <2>1. \A i \in Places(all) : behind[i] \in Allowing
    BY <1>0, <1>1, AllowedTyped
  <2> QED BY <1>9, <2>1, Zenon
<1>4. \A i \in 1..last : allowed[i] = Y!allowedFrom(args, allowed, i)
  BY DEF Reads, Places
<1>5. \A i \in 1..(last + 2) : behind[i] = Y!allowedFrom(all, behind, i)
  BY <1>0, <1>9 DEF Reads
<1>6. ASSUME NEW i \in 1..last, \A j \in (i + 1)..last : j \in Good PROVE i \in Good
  <2>1. CASE i = last
    <3>1. i > Len(args) /\ ~(i > Len(all)) /\ i # Len(all)
      BY <1>1, <2>1
    <3>2. allowed[i] = [ok |-> TRUE, pairs |-> {}]
      BY <1>4, <3>1 DEF Y!allowedFrom
    <3>3. behind[i + 2] = [ok |-> TRUE, pairs |-> {}]
      <4>1. i + 2 > Len(all) /\ i + 2 \in 1..(last + 2)
        BY <1>1, <2>1
      <4> QED BY <1>5, <4>1 DEF Y!allowedFrom
    <3>4. all[i].flag = "--tmpfs" /\ all[i].inline = <<>> /\ all[i + 1].flag = "none" /\ all[i + 1].inline[1] = MaskPath
      <4>1. <<MaskPath>>[1] = MaskPath
        OBVIOUS
      <4>2. all[i] = [flag |-> "--tmpfs", inline |-> <<>>] /\ all[i + 1] = [flag |-> "none", inline |-> <<MaskPath>>]
        BY <1>1, <2>1
      <4> QED BY <4>1, <4>2
    <3>5. Y!allowedFrom(all, behind, i) = Allow(behind[i + 2], MaskPair)
      <4>1. all[i].flag \in Y!Values
        BY <3>4 DEF Y!Values
      <4>2. Y!allowedFrom(all, behind, i) = Allow(behind[i + 2], <<all[i].flag, all[i + 1].inline[1]>>)
        BY <3>1, <3>4, <4>1, AllowedAsNext
      <4> QED BY <3>4, <4>2, Zenon DEF MaskPair
    <3>6. behind[i] = Allow([ok |-> TRUE, pairs |-> {}], MaskPair)
      <4>1. i \in 1..(last + 2)
        BY <1>1
      <4> QED BY <1>5, <3>3, <3>5, <4>1, Zenon
    <3>7. behind[i].ok /\ behind[i].pairs = {MaskPair}
      BY <3>6 DEF Allow
    <3> QED BY <3>2, <3>7 DEF More
  <2>2. CASE i # last /\ allowed[i].ok
    <3>1. /\ ~(i > Len(args)) /\ ~(i > Len(all)) /\ i \in 1..Len(args)
          /\ i + 1 \in 1..last /\ i + 1 \in (i + 1)..last /\ i \in 1..(last + 2) /\ i # Len(all)
      BY <1>1, <2>2
    <3>2. all[i] = args[i] /\ args[i].flag \in Word
      BY <1>1, <3>1, ArgumentOf
    <3>3. More(allowed[i + 1], behind[i + 1])
      BY <1>6, <3>1
    <3>4. allowed[i + 1] \in Allowing /\ behind[i + 1] \in Allowing
      BY <1>2, <1>3, <3>1
    <3>5. CASE AsBool(args, allowed, i)
      <4>1. args[i].flag \in Y!Bools /\ Y!takesNoValue(args[i]) /\ allowed[i] = allowed[i + 1]
        BY <1>4, <3>5 DEF AsBool
      <4>2. behind[i] = behind[i + 1]
        BY <1>5, <3>1, <3>2, <4>1, AllowedAsBool
      <4>3. More(allowed[i], behind[i])
        BY <3>3, <4>1, <4>2, Zenon
      <4> QED BY <4>3
    <3>6. CASE AsInline(args, allowed, i)
      <4>1. /\ args[i].flag \in Y!Values /\ args[i].inline # <<>>
            /\ allowed[i] = Allow(allowed[i + 1], <<args[i].flag, args[i].inline[1]>>)
        BY <1>4, <3>6 DEF AsInline
      <4>2. behind[i] = Allow(behind[i + 1], <<args[i].flag, args[i].inline[1]>>)
        BY <1>5, <3>1, <3>2, <4>1, AllowedAsInline
      <4>3. <<args[i].flag, args[i].inline[1]>> \in Pairs
        BY <3>1, <4>1, ArgumentOf DEF Pairs
      <4>4. More(allowed[i], behind[i])
        BY <3>3, <3>4, <4>1, <4>2, <4>3, MoreOnOne
      <4> QED BY <4>4
    <3>7. CASE AsNext(args, allowed, i)
      <4>1. /\ args[i].flag \in Y!Values /\ args[i].inline = <<>> /\ i # Len(args) /\ args[i + 1].flag = "none"
            /\ allowed[i] = Allow(allowed[i + 2], <<args[i].flag, args[i + 1].inline[1]>>)
        BY <1>4, <3>7 DEF AsNext
      <4>2. i + 1 \in 1..Len(args) /\ i + 2 \in 1..last /\ i + 2 \in (i + 1)..last /\ i + 2 \in 1..(last + 2)
        BY <1>1, <3>1, <4>1
      <4>3. all[i + 1] = args[i + 1]
        BY <1>1, <4>2
      <4>4. behind[i] = Allow(behind[i + 2], <<args[i].flag, args[i + 1].inline[1]>>)
        <5>1. Y!allowedFrom(all, behind, i) = Allow(behind[i + 2], <<all[i].flag, all[i + 1].inline[1]>>)
          BY <3>1, <3>2, <4>1, <4>3, AllowedAsNext
        <5> QED BY <1>5, <3>1, <3>2, <4>3, <5>1, Zenon
      <4>5. <<args[i].flag, args[i + 1].inline[1]>> \in Pairs
        BY <3>1, <4>1, <4>2, ArgumentOf DEF Pairs
      <4>6. More(allowed[i + 2], behind[i + 2]) /\ allowed[i + 2] \in Allowing /\ behind[i + 2] \in Allowing
        BY <1>2, <1>3, <1>6, <4>2
      <4>7. More(allowed[i], behind[i])
        BY <4>1, <4>4, <4>5, <4>6, MoreOnOne
      <4> QED BY <4>7
    <3> QED BY <1>4, <2>2, <3>1, <3>5, <3>6, <3>7, LetThrough
  <2>3. CASE ~allowed[i].ok
    BY <2>3 DEF More
  <2> QED BY <2>1, <2>2, <2>3
<1>7. \A i \in 1..last : i \in Good
  <2> HIDE DEF last, Good
  <2> QED BY <1>1, <1>6, FromTheEnd
<1> QED BY <1>7 DEF Places

(* What is asked of a list of arguments, as the checks and docker have it.  *)
LEMMA AllowedIsRead ==
  ASSUME NEW args \in Seq(Arg), Y!allowedPairs(args).ok
  PROVE  /\ Y!DockerReads(args).image = "image"
         /\ Y!allowedPairs(args).pairs \subseteq Y!DockerReads(args).flags
         /\ \A pair \in Y!DockerReads(args).flags : pair \in Y!allowedPairs(args).pairs \/ pair[1] \in Y!Bools
         /\ Y!allowedPairs(args).pairs \subseteq Pairs
<1>1. PICK allowed : Reads(allowed, args) /\ Y!allowedPairs(args) = allowed[1]
  BY AllowedReading
<1>2. PICK taken : DockerReading(taken, Before(args)) /\ Y!DockerReads(args) = taken[1]
  BY DockerReadingIs
<1>3. 1 \in Places(args)
  BY DEF Places
<1>4. Agree(allowed[1], taken[1])
  BY <1>1, <1>2, <1>3, ReadAlike
<1>5. allowed[1] \in Allowing
  BY <1>1, <1>3, AllowedTyped
<1> QED BY <1>1, <1>2, <1>4, <1>5 DEF Agree, Allowing

LEMMA MaskedIsAllowed ==
  ASSUME NEW args \in Seq(Arg), Y!allowedPairs(args).ok
  PROVE  /\ Y!allowedPairs(args \o Masking).ok
         /\ \A pair : pair \in Y!allowedPairs(args \o Masking).pairs
                       <=> pair \in Y!allowedPairs(args).pairs \/ pair = MaskPair
<1>1. PICK allowed : Reads(allowed, args) /\ Y!allowedPairs(args) = allowed[1]
  BY AllowedReading
<1>2. args \o Masking \in Seq(Arg)
  BY BehindIs
<1>3. PICK behind : Reads(behind, args \o Masking) /\ Y!allowedPairs(args \o Masking) = behind[1]
  BY <1>2, AllowedReading
<1>4. 1 \in Places(args)
  BY DEF Places
<1>5. More(allowed[1], behind[1])
  BY <1>1, <1>3, <1>4, MaskAddsItsOwn
<1> QED BY <1>1, <1>3, <1>5, Zenon DEF More

-----------------------------------------------------------------------------
(* What is made of a spec.                                                 *)
Mirrored == IF Y!mustMirrorItsOwnPath(spec, target, Y!daemonOf(spec))
            THEN [spec EXCEPT !.workspaceFolder = "dir", !.workspaceMount =
                    << [source |-> Y!ProjectDir(target), at |-> Y!ProjectDir(target)] >>]
            ELSE spec
Fields == {"keys", "features", "privileged", "capAdd", "securityOpt", "mounts", "runArgs", "dockerfile",
           "context", "workspaceFolder", "workspaceMount", "shadowImages", "memory"}

LEMMA Changed ==
  ASSUME NEW r, NEW key, NEW x
  PROVE  LET c == [r EXCEPT ![key] = x] IN
         /\ DOMAIN c = DOMAIN r
         /\ key \in DOMAIN r => c[key] = x
         /\ \A k \in DOMAIN r : k # key => c[k] = r[k]
OBVIOUS

LEMMA SpecFields == spec \in Y!Specs => DOMAIN spec = Fields
BY DEF Y!Specs, Fields

LEMMA MirroredIs ==
  ASSUME spec \in Y!Specs
  PROVE  /\ DOMAIN Mirrored = Fields
         /\ \A key \in Fields \ {"workspaceFolder", "workspaceMount"} : Mirrored[key] = spec[key]
         /\ \/ Mirrored.workspaceMount = spec.workspaceMount
            \/ Mirrored.workspaceMount = << [source |-> Y!ProjectDir(target), at |-> Y!ProjectDir(target)] >>
BY SpecFields DEF Mirrored, Fields

LEMMA DerivedIs ==
  ASSUME spec \in Y!Specs
  PROVE  /\ DOMAIN Y!Derived = Fields
         /\ \A key \in Fields \ {"workspaceFolder", "workspaceMount", "runArgs", "features"} :
              Y!Derived[key] = spec[key]
         /\ \/ Y!Derived.workspaceMount = spec.workspaceMount
            \/ Y!Derived.workspaceMount = << [source |-> Y!ProjectDir(target), at |-> Y!ProjectDir(target)] >>
         /\ Y!Derived.runArgs = spec.runArgs \o Y!mask(target)
         /\ Y!Derived.features = Y!pinFeatures(spec.features)
<1>1. Y!Derived = [Mirrored EXCEPT !.runArgs = @ \o Y!mask(target), !.features = Y!pinFeatures(@)]
  BY Zenon DEF Y!Derived, Y!deriveRunConfig, Mirrored
<1>2. /\ DOMAIN Mirrored = Fields
      /\ Mirrored.runArgs = spec.runArgs /\ Mirrored.features = spec.features
  BY MirroredIs DEF Fields
<1> QED BY <1>1, <1>2, MirroredIs DEF Fields

(* What the CLI merges of it is what it merged of the spec: a digest brings *)
(* what its feature brought.                                               *)
LEMMA PinnedIds ==
  ASSUME NEW ids, ids \subseteq [name : STRING, spelling : STRING]
  PROVE  /\ {Y!Brings(id.name) : id \in Y!pinFeatures(ids)} = {Y!Brings(id.name) : id \in ids}
         /\ \A id \in Y!pinFeatures(ids) : /\ id.spelling = "digest"
                                           /\ \E plain \in ids : id.name = plain.name
<1>1. ASSUME NEW id \in ids
      PROVE  [id EXCEPT !.spelling = "digest"].name = id.name /\ [id EXCEPT !.spelling = "digest"].spelling = "digest"
  BY <1>1
<1>2. \A id \in Y!pinFeatures(ids) : id.spelling = "digest" /\ \E plain \in ids : id.name = plain.name
  BY <1>1 DEF Y!pinFeatures
<1>3. \A id \in ids : \E pinned \in Y!pinFeatures(ids) : pinned.name = id.name
  BY <1>1 DEF Y!pinFeatures
<1>4. ASSUME NEW id \in Y!pinFeatures(ids) PROVE Y!Brings(id.name) \in {Y!Brings(i.name) : i \in ids}
  <2>1. PICK plain \in ids : id.name = plain.name
    BY <1>2
  <2>2. Y!Brings(id.name) = Y!Brings(plain.name)
    BY <2>1, Zenon
  <2> QED BY <2>2
<1>5. ASSUME NEW id \in ids PROVE Y!Brings(id.name) \in {Y!Brings(i.name) : i \in Y!pinFeatures(ids)}
  <2>1. PICK pinned \in Y!pinFeatures(ids) : pinned.name = id.name
    BY <1>3
  <2>2. Y!Brings(id.name) = Y!Brings(pinned.name)
    BY <2>1, Zenon
  <2> QED BY <2>2
<1>6. {Y!Brings(id.name) : id \in Y!pinFeatures(ids)} = {Y!Brings(id.name) : id \in ids}
  BY <1>4, <1>5
<1> QED BY <1>2, <1>6

LEMMA MergedAlike ==
  ASSUME spec \in Y!Specs, NEW label
  PROVE  Y!Merged(Y!Derived, label) = Y!Merged(spec, label)
<1>1. Y!Own(Y!Derived) = Y!Own(spec)
  BY DerivedIs DEF Y!Own, Fields
<1>2. spec.features \subseteq [name : STRING, spelling : STRING]
  BY DEF Y!Specs
<1>3. {Y!Brings(id.name) : id \in Y!Derived.features} = {Y!Brings(id.name) : id \in spec.features}
  BY <1>2, DerivedIs, PinnedIds
<1> QED BY <1>1, <1>3, Zenon DEF Y!Merged

(* An image built of it brings nothing more than was merged to build it.    *)
LEMMA MergedOfBuilt ==
  ASSUME NEW s, NEW built, built.features = {}, Y!Own(built) = Y!Own(s)
  PROVE  Y!Merged(built, Y!Merged(s, Y!Ungranted)) = Y!Merged(s, Y!Ungranted)
<1> DEFINE itsOwn == Y!Own(s)
           all == {itsOwn, Y!Ungranted} \union {Y!Brings(id.name) : id \in s.features}
           merged == Y!Join(all)
<1>1. itsOwn \in all
  OBVIOUS
<1>2. {itsOwn, merged} \union {Y!Brings(id.name) : id \in built.features} = {itsOwn, merged}
  OBVIOUS
<1>3. Y!Merged(s, Y!Ungranted) = merged /\ Y!Merged(built, merged) = Y!Join({itsOwn, merged})
  BY <1>2, Zenon DEF Y!Merged
<1> HIDE DEF all, itsOwn
<1>4. Y!Join({itsOwn, Y!Join(all)}) = Y!Join(all)
  <2>1. (\E g \in {itsOwn, Y!Join(all)} : g.privileged) = (\E g \in all : g.privileged)
    BY <1>1 DEF Y!Join
  <2>2. (\E g \in {itsOwn, Y!Join(all)} : g.capAdd) = (\E g \in all : g.capAdd)
    BY <1>1 DEF Y!Join
  <2>3. UNION {g.securityOpt : g \in {itsOwn, Y!Join(all)}} = UNION {g.securityOpt : g \in all}
    BY <1>1 DEF Y!Join
  <2>4. UNION {g.mounts : g \in {itsOwn, Y!Join(all)}} = UNION {g.mounts : g \in all}
    BY <1>1 DEF Y!Join
  <2> QED BY <2>1, <2>2, <2>3, <2>4, Zenon DEF Y!Join
<1> QED BY <1>3, <1>4, Zenon

(* Each check passes on what is made of a spec that passed them all.        *)
LEMMA FetchedStill ==
  ASSUME spec \in Y!Specs, Y!featuresMustBeFetched(spec)
  PROVE  Y!featuresMustBeFetched(Y!Derived)
<1>1. spec.features \subseteq [name : STRING, spelling : STRING]
  BY DEF Y!Specs
<1>2. \A id \in Y!Derived.features : id.spelling = "digest" /\ \E plain \in spec.features : id.name = plain.name
  BY <1>1, DerivedIs, PinnedIds
<1>3. \A id \in spec.features : id.name # "nested"
  BY DEF Y!featuresMustBeFetched
<1> QED BY <1>2, <1>3 DEF Y!featuresMustBeFetched, Y!parseRef, Y!origin

LEMMA WorkspaceStill ==
  ASSUME spec \in Y!Specs, Y!workspaceMountIsOwnFolder(spec, target)
  PROVE  Y!workspaceMountIsOwnFolder(Y!Derived, target)
<1>1. CASE Y!Derived.workspaceMount = spec.workspaceMount
  BY <1>1 DEF Y!workspaceMountIsOwnFolder
<1>2. CASE Y!Derived.workspaceMount = << [source |-> Y!ProjectDir(target), at |-> Y!ProjectDir(target)] >>
  BY <1>2 DEF Y!workspaceMountIsOwnFolder, Y!ProjectDir, Y!workspaceMountTargets
<1> QED BY <1>1, <1>2, DerivedIs

LEMMA MaskIs == Y!mask(target) = <<>> \/ Y!mask(target) = Masking
BY Zenon DEF Y!mask, Masking, MaskPath

LEMMA SpecArgs == spec \in Y!Specs => spec.runArgs \in Seq(Arg)
<1>1. spec \in Y!Specs => spec.runArgs \in Seq(Y!Arguments)
  BY DEF Y!Specs
<1> QED BY <1>1, ArgumentsAreArgs

LEMMA RunArgsStill ==
  ASSUME spec \in Y!Specs, NEW daemon, Y!runArgsOnAllowlist(spec, daemon)
  PROVE  /\ Y!runArgsOnAllowlist(Y!Derived, daemon)
         /\ Y!Derived.runArgs \in Seq(Arg)
         /\ Y!mask(target) # <<>> => MaskPair \in Y!allowedPairs(Y!Derived.runArgs).pairs
<1>1. spec.runArgs \in Seq(Arg) /\ Y!Derived.runArgs = spec.runArgs \o Y!mask(target)
  BY SpecArgs, DerivedIs
<1>2. CASE Y!mask(target) = <<>>
  <2>1. Y!Derived.runArgs = spec.runArgs
    BY <1>1, <1>2
  <2> QED BY <1>1, <1>2, <2>1 DEF Y!runArgsOnAllowlist
<1>3. CASE Y!mask(target) = Masking
  <2>1. Y!Derived.runArgs = spec.runArgs \o Masking
    BY <1>1, <1>3, Zenon
  <2>2. Y!allowedPairs(spec.runArgs).ok
    BY DEF Y!runArgsOnAllowlist
  <2>3. /\ Y!allowedPairs(Y!Derived.runArgs).ok
        /\ \A pair : pair \in Y!allowedPairs(Y!Derived.runArgs).pairs
                      <=> pair \in Y!allowedPairs(spec.runArgs).pairs \/ pair = MaskPair
    BY <1>1, <2>1, <2>2, MaskedIsAllowed
  <2>4. MaskPair[1] = "--tmpfs" /\ MaskPair[2].key = "/path"
    BY DEF MaskPair, MaskPath, Y!Unspelled
  <2>5. \A pair \in Y!allowedPairs(spec.runArgs).pairs :
          /\ pair[1] = "--security-opt" => ~Y!disallowedSecurityOption(pair[2], daemon)
          /\ pair[1] = "--tmpfs" => pair[2].key = "/path"
    BY Zenon DEF Y!runArgsOnAllowlist
  <2>6. \A pair \in Y!allowedPairs(Y!Derived.runArgs).pairs :
          /\ pair[1] = "--security-opt" => ~Y!disallowedSecurityOption(pair[2], daemon)
          /\ pair[1] = "--tmpfs" => pair[2].key = "/path"
    <3> SUFFICES ASSUME NEW pair \in Y!allowedPairs(Y!Derived.runArgs).pairs
                 PROVE  /\ pair[1] = "--security-opt" => ~Y!disallowedSecurityOption(pair[2], daemon)
                        /\ pair[1] = "--tmpfs" => pair[2].key = "/path"
      OBVIOUS
    <3>1. CASE pair = MaskPair
      <4>1. pair[1] # "--security-opt" /\ pair[2].key = "/path"
        BY <2>4, <3>1
      <4> QED BY <4>1
    <3>2. CASE pair \in Y!allowedPairs(spec.runArgs).pairs
      BY <2>5, <3>2, Zenon
    <3> QED BY <2>3, <3>1, <3>2, Zenon
  <2>7. Y!runArgsOnAllowlist(Y!Derived, daemon)
    BY <2>3, <2>6, Zenon DEF Y!runArgsOnAllowlist
  <2> QED BY <1>1, <2>1, <2>3, <2>7, BehindIs, Zenon
<1> QED BY <1>2, <1>3, MaskIs

-----------------------------------------------------------------------------
(* What desolate makes of a spec that passed, passes.                       *)
LEMMA DerivedPasses ==
  ASSUME spec \in Y!Specs, NEW label, NEW daemon, Y!enforcePolicy(spec, label, target, daemon)
  PROVE  Y!enforcePolicy(Y!Derived, label, target, daemon)
<1>1. /\ Y!Derived.keys = spec.keys /\ Y!Derived.mounts = spec.mounts
      /\ Y!Derived.dockerfile = spec.dockerfile /\ Y!Derived.context = spec.context
      /\ Y!Derived.shadowImages = spec.shadowImages /\ Y!Derived.memory = spec.memory
  BY DerivedIs DEF Fields
<1>2. Y!Merged(Y!Derived, label) = Y!Merged(spec, label)
  BY MergedAlike
<1>3. /\ Y!noForbiddenKeys(spec) /\ Y!featuresMustBeFetched(spec)
      /\ Y!neverPrivileged(Y!Merged(spec, label))
      /\ Y!capAddsOnlyOnAProjectDaemon(Y!Merged(spec, label), daemon)
      /\ Y!securityOptKeepsTheSandbox(Y!Merged(spec, label), daemon)
      /\ Y!mountsStayInOwnNamespace(spec, Y!Merged(spec, label), daemon)
      /\ Y!runArgsOnAllowlist(spec, daemon) /\ Y!buildPathsStayInOwnProject(spec)
      /\ Y!shadowImagesAreImages(spec) /\ Y!memoryIsASize(spec)
      /\ Y!workspaceMountIsOwnFolder(spec, target)
  BY Zenon DEF Y!enforcePolicy
<1>4. Y!noForbiddenKeys(Y!Derived)
  BY <1>1, <1>3, Zenon DEF Y!noForbiddenKeys
<1>5. Y!featuresMustBeFetched(Y!Derived)
  BY <1>3, FetchedStill
<1>6. Y!mountsStayInOwnNamespace(Y!Derived, Y!Merged(spec, label), daemon)
  BY <1>1, <1>3, Zenon DEF Y!mountsStayInOwnNamespace
<1>7. Y!runArgsOnAllowlist(Y!Derived, daemon)
  BY <1>3, RunArgsStill
<1>8. Y!buildPathsStayInOwnProject(Y!Derived)
  BY <1>1, <1>3, Zenon DEF Y!buildPathsStayInOwnProject
<1>9. Y!shadowImagesAreImages(Y!Derived) /\ Y!memoryIsASize(Y!Derived)
  BY <1>1, <1>3, Zenon DEF Y!shadowImagesAreImages, Y!memoryIsASize
<1>10. Y!workspaceMountIsOwnFolder(Y!Derived, target)
  BY <1>3, WorkspaceStill
<1> QED
  BY <1>2, <1>3, <1>4, <1>5, <1>6, <1>7, <1>8, <1>9, <1>10, Zenon DEF Y!enforcePolicy

(* And what is left of it once its image is built.                          *)
ImageKeys == {"dockerfile", "context", "features"}
LEMMA ImageSpecIs ==
  ASSUME NEW s, DOMAIN s = Fields
  PROVE  /\ \A key \in Fields \ ImageKeys : Y!imageSpec(s)[key] = s[key]
         /\ Y!imageSpec(s).dockerfile = <<>> /\ Y!imageSpec(s).context = <<>>
         /\ Y!imageSpec(s).features = {}
BY DEF Y!imageSpec, Fields, ImageKeys

LEMMA BuiltPasses ==
  ASSUME NEW s, DOMAIN s = Fields, NEW daemon, NEW t, Y!enforcePolicy(s, Y!Ungranted, t, daemon)
  PROVE  Y!enforcePolicy(Y!imageSpec(s), Y!Merged(s, Y!Ungranted), t, daemon)
<1> DEFINE built == Y!imageSpec(s)
           merged == Y!Merged(s, Y!Ungranted)
<1>1. /\ built.keys = s.keys /\ built.mounts = s.mounts /\ built.runArgs = s.runArgs
      /\ built.privileged = s.privileged /\ built.capAdd = s.capAdd /\ built.securityOpt = s.securityOpt
      /\ built.shadowImages = s.shadowImages /\ built.memory = s.memory
      /\ built.workspaceMount = s.workspaceMount
      /\ built.dockerfile = <<>> /\ built.context = <<>> /\ built.features = {}
  BY ImageSpecIs DEF Fields, ImageKeys
<1> HIDE DEF built
<1>2. Y!Own(built) = Y!Own(s)
  BY <1>1, Zenon DEF Y!Own
<1>3. Y!Merged(built, merged) = merged
  BY <1>1, <1>2, MergedOfBuilt
<1> HIDE DEF merged
<1>4. /\ Y!noForbiddenKeys(s)
      /\ Y!neverPrivileged(merged)
      /\ Y!capAddsOnlyOnAProjectDaemon(merged, daemon)
      /\ Y!securityOptKeepsTheSandbox(merged, daemon)
      /\ Y!mountsStayInOwnNamespace(s, merged, daemon)
      /\ Y!runArgsOnAllowlist(s, daemon)
      /\ Y!shadowImagesAreImages(s) /\ Y!memoryIsASize(s)
      /\ Y!workspaceMountIsOwnFolder(s, t)
  BY Zenon DEF Y!enforcePolicy, merged
<1>5. Y!noForbiddenKeys(built)
  BY <1>1, <1>4, Zenon DEF Y!noForbiddenKeys
<1>6. Y!featuresMustBeFetched(built)
  BY <1>1 DEF Y!featuresMustBeFetched
<1>7. Y!mountsStayInOwnNamespace(built, merged, daemon)
  BY <1>1, <1>4, Zenon DEF Y!mountsStayInOwnNamespace
<1>8. Y!runArgsOnAllowlist(built, daemon)
  BY <1>1, <1>4, Zenon DEF Y!runArgsOnAllowlist
<1>9. Y!buildPathsStayInOwnProject(built)
  <2>1. Y!Range(built.dockerfile) = {} /\ Y!Range(built.context) = {}
    BY <1>1 DEF Y!Range
  <2> QED BY <2>1 DEF Y!buildPathsStayInOwnProject
<1>10. Y!shadowImagesAreImages(built) /\ Y!memoryIsASize(built)
  BY <1>1, <1>4, Zenon DEF Y!shadowImagesAreImages, Y!memoryIsASize
<1>11. Y!workspaceMountIsOwnFolder(built, t)
  BY <1>1, <1>4, Zenon DEF Y!workspaceMountIsOwnFolder
<1>12. Y!enforcePolicy(built, merged, t, daemon)
  BY <1>3, <1>4, <1>5, <1>6, <1>7, <1>8, <1>9, <1>10, <1>11, Zenon DEF Y!enforcePolicy
<1> QED BY <1>12 DEF built, merged

LEMMA NoneUnpinned == spec \in Y!Specs => Y!unpinned(Y!Derived.features) = {}
<1> SUFFICES ASSUME spec \in Y!Specs PROVE Y!unpinned(Y!Derived.features) = {}
  OBVIOUS
<1>1. spec.features \subseteq [name : STRING, spelling : STRING]
  BY DEF Y!Specs
<1>2. \A id \in Y!Derived.features : id.spelling = "digest"
  BY <1>1, DerivedIs, PinnedIds
<1> QED BY <1>2 DEF Y!unpinned, Y!classify

(* DerivedStillPasses holds of every well-formed spec.                     *)
LEMMA WhatIsMadePasses == spec \in Y!Specs => Y!DerivedStillPasses
<1> SUFFICES ASSUME spec \in Y!Specs, Y!Started, Y!buildsFromDockerfile(spec) => Y!Brings(base) = Y!Ungranted
             PROVE  /\ Y!enforcePolicy(Y!Derived, Y!FirstLabel(Y!Derived), target, Y!daemonOf(spec))
                    /\ Y!enforcePolicy(Y!Final, Y!FinalLabel, target, Y!daemonOf(spec))
                    /\ Y!unpinned(Y!Final.features) = {}
  BY Zenon DEF Y!DerivedStillPasses
<1> DEFINE daemon == Y!daemonOf(spec)
<1>1. Y!enforcePolicy(spec, Y!FirstLabel(spec), target, daemon)
  BY Zenon DEF Y!Started, Y!Passes
<1>2. Y!Derived.dockerfile = spec.dockerfile /\ DOMAIN Y!Derived = Fields
  BY DerivedIs DEF Fields
<1>3. /\ Y!buildsFromDockerfile(Y!Derived) = Y!buildsFromDockerfile(spec)
      /\ Y!FirstLabel(Y!Derived) = Y!FirstLabel(spec)
  BY <1>2, Zenon DEF Y!buildsFromDockerfile, Y!FirstLabel
<1> HIDE DEF daemon
<1>4. Y!enforcePolicy(Y!Derived, Y!FirstLabel(Y!Derived), target, daemon)
  <2>1. Y!enforcePolicy(Y!Derived, Y!FirstLabel(spec), target, daemon)
    BY <1>1, DerivedPasses
  <2> QED BY <1>3, <2>1, Zenon
<1>5. CASE ~Y!buildsFromDockerfile(Y!Derived)
  <2>1. Y!Final = Y!Derived /\ Y!FinalLabel = Y!FirstLabel(Y!Derived)
    BY <1>5, Zenon DEF Y!Final, Y!FinalLabel, Y!FirstLabel
  <2>2. Y!enforcePolicy(Y!Final, Y!FinalLabel, target, daemon) /\ Y!unpinned(Y!Final.features) = {}
    BY <1>4, <2>1, NoneUnpinned, Zenon
  <2> QED BY <1>4, <2>2 DEF daemon
<1>6. CASE Y!buildsFromDockerfile(Y!Derived)
  <2>1. Y!Brings(base) = Y!Ungranted /\ Y!FirstLabel(Y!Derived) = Y!Ungranted
    BY <1>3, <1>6, Zenon DEF Y!FirstLabel
  <2>2. Y!Final = Y!imageSpec(Y!Derived) /\ Y!FinalLabel = Y!Merged(Y!Derived, Y!Ungranted)
    BY <1>6, <2>1, Zenon DEF Y!Final, Y!FinalLabel, Y!BuiltLabel
  <2>3. Y!enforcePolicy(Y!Derived, Y!Ungranted, target, daemon)
    BY <1>4, <2>1, Zenon
  <2>4. Y!enforcePolicy(Y!imageSpec(Y!Derived), Y!Merged(Y!Derived, Y!Ungranted), target, daemon)
    BY <1>2, <2>3, BuiltPasses
  <2>5. Y!unpinned(Y!Final.features) = {}
    BY <1>2, <2>2, ImageSpecIs DEF Y!unpinned
  <2>6. Y!enforcePolicy(Y!Final, Y!FinalLabel, target, daemon)
    BY <2>2, <2>4, Zenon
  <2> QED BY <1>4, <2>5, <2>6 DEF daemon
<1> QED BY <1>5, <1>6

-----------------------------------------------------------------------------
(* And what passed is, as docker reads it, what was judged.                 *)
Kept(option, daemon) ==
  \E o \in Y!securityOption(option) :
    /\ o.key = "seccomp" => o.value # "/path"
    /\ o.key = "no-new-privileges" => o.value = "true"
    /\ daemon = "shared" => o.value # "disable"

LEMMA OptionKept ==
  ASSUME NEW option, NEW daemon \in {"project", "shared"}, ~Y!disallowedSecurityOption(option, daemon)
  PROVE  Kept(option, daemon)
<1>1. PICK o \in Y!securityOption(option) :
        CASE o.key = "no-new-privileges" -> o.value = "true"
          [] o.key = "seccomp" -> o.value \in ({"builtin"} \union
                                     IF daemon = "project" THEN {"unconfined"} ELSE {})
          [] o.key = "apparmor" -> daemon = "project" \/ o.value = "docker-default"
          [] o.key \in {"label", "systempaths"} -> daemon = "project"
          [] OTHER -> FALSE
  BY Zenon DEF Y!disallowedSecurityOption
<1>2. /\ o.key = "seccomp" => o.value # "/path"
      /\ o.key = "no-new-privileges" => o.value = "true"
      /\ daemon = "shared" => o.value # "disable"
  BY <1>1
<1> QED BY <1>2 DEF Kept

LEMMA WorkspaceKept ==
  ASSUME NEW s, NEW t, Y!workspaceMountIsOwnFolder(s, t), NEW i \in DOMAIN s.workspaceMount
  PROVE  s.workspaceMount[i].source \in {"dir", "root"}
BY Zenon DEF Y!workspaceMountIsOwnFolder

(* NothingReachesPast holds of every well-formed spec.                     *)
LEMMA WhatRunsIsWhatWasJudged == spec \in Y!Specs => Y!NothingReachesPast
<1> DEFINE daemon == Y!daemonOf(spec)
           args == Y!Final.runArgs
           reads == Y!DockerReads(args)
           pairs == Y!allowedPairs(args).pairs
           merged == Y!Merged(Y!Final, Y!FinalLabel)
           options == merged.securityOpt \union
                      {pair[2] : pair \in {p \in reads.flags : p[1] = "--security-opt"}}
<1>0. SUFFICES ASSUME spec \in Y!Specs, Y!Started, Y!enforcePolicy(Y!Final, Y!FinalLabel, target, daemon)
               PROVE  /\ reads.image = "image"
                      /\ {pair[1] : pair \in reads.flags} \subseteq Y!Values \union Y!Bools
                      /\ Y!mask(target) # <<>> => MaskPair \in reads.flags
                      /\ \A mounted \in merged.mounts :
                           \/ mounted.source \in {"own", "public-ca"}
                           \/ daemon = "project" /\ mounted = Y!Socket
                      /\ \A option \in options : Kept(option, daemon)
                      /\ \A i \in DOMAIN Y!Final.workspaceMount :
                           Y!Final.workspaceMount[i].source \in {"dir", "root"}
  BY Zenon DEF Y!NothingReachesPast, MaskPair, MaskPath, Kept
<1>1. daemon \in {"project", "shared"}
  BY DEF Y!daemonOf
<1>2. /\ Y!securityOptKeepsTheSandbox(merged, daemon)
      /\ Y!mountsStayInOwnNamespace(Y!Final, merged, daemon)
      /\ Y!runArgsOnAllowlist(Y!Final, daemon)
      /\ Y!workspaceMountIsOwnFolder(Y!Final, target)
  BY <1>0, Zenon DEF Y!enforcePolicy
<1>3. args = Y!Derived.runArgs
  <2>1. DOMAIN Y!Derived = Fields
    BY <1>0, DerivedIs
  <2> QED BY <2>1, ImageSpecIs DEF Y!Final, Fields, ImageKeys
<1>4. Y!runArgsOnAllowlist(spec, daemon)
  BY <1>0, Zenon DEF Y!Started, Y!Passes, Y!enforcePolicy
<1> HIDE DEF daemon, args, merged
<1>5. args \in Seq(Arg) /\ (Y!mask(target) # <<>> => MaskPair \in pairs)
  BY <1>0, <1>3, <1>4, RunArgsStill
<1>6. Y!allowedPairs(args).ok
  BY <1>2, Zenon DEF Y!runArgsOnAllowlist, args
<1>7. /\ reads.image = "image" /\ pairs \subseteq reads.flags
      /\ \A pair \in reads.flags : pair \in pairs \/ pair[1] \in Y!Bools
      /\ pairs \subseteq Pairs
  BY <1>5, <1>6, AllowedIsRead
<1>8. \A pair \in pairs : pair[1] = "--security-opt" => ~Y!disallowedSecurityOption(pair[2], daemon)
  BY <1>2, Zenon DEF Y!runArgsOnAllowlist, args
<1> HIDE DEF reads, pairs
<1>9. {pair[1] : pair \in reads.flags} \subseteq Y!Values \union Y!Bools
  <2>1. \A pair \in Pairs : pair[1] \in Y!Values
    BY DEF Pairs
  <2> QED BY <1>7, <2>1
<1>10. ASSUME NEW option \in options PROVE ~Y!disallowedSecurityOption(option, daemon)
  <2>1. CASE option \in merged.securityOpt
    BY <1>2, <2>1, Zenon DEF Y!securityOptKeepsTheSandbox
  <2>2. CASE option \notin merged.securityOpt
    <3>1. PICK pair \in reads.flags : pair[1] = "--security-opt" /\ option = pair[2]
      BY <2>2
    <3>2. pair[1] \notin Y!Bools
      BY <3>1 DEF Y!Bools
    <3>3. pair \in pairs
      BY <1>7, <3>2
    <3> QED BY <1>8, <3>1, <3>3, Zenon
  <2> QED BY <2>1, <2>2
<1>11. \A mounted \in merged.mounts :
         mounted.source \in {"own", "public-ca"} \/ (daemon = "project" /\ mounted = Y!Socket)
  <2> SUFFICES ASSUME NEW mounted \in merged.mounts
               PROVE  mounted.source \in {"own", "public-ca"} \/ (daemon = "project" /\ mounted = Y!Socket)
    OBVIOUS
  <2>1. \/ mounted.type = "bind" /\ mounted.source = "public-ca"
        \/ daemon = "project" /\ mounted = Y!Socket
        \/ mounted.type = "volume" /\ mounted.source = "own"
    BY <1>2, Zenon DEF Y!mountsStayInOwnNamespace, Y!ensureMountIsWithinNamespace
  <2> QED BY <2>1
<1>12. \A i \in DOMAIN Y!Final.workspaceMount : Y!Final.workspaceMount[i].source \in {"dir", "root"}
  BY <1>2, WorkspaceKept, Zenon
<1>13. \A option \in options : Kept(option, daemon)
  <2> HIDE DEF options
  <2> SUFFICES ASSUME NEW option \in options
               PROVE  Kept(option, daemon)
    OBVIOUS
  <2> QED BY <1>1, <1>10, OptionKept
<1> HIDE DEF options
<1>14. Y!mask(target) # <<>> => MaskPair \in reads.flags
  BY <1>5, <1>7
<1> QED BY <1>7, <1>9, <1>11, <1>12, <1>13, <1>14

-----------------------------------------------------------------------------
(* So every behaviour of the parts is one of each part.                    *)
LEMMA KeyringAlone == Spec => K!Spec
<1>1. Init => K!Init
  BY DEF Init
<1> QED BY <1>1, PartsMove, PTL DEF Spec, K!Spec

LEMMA StartsAlone == Spec => S!Spec
<1>1. Init => S!Init
  BY DEF Init
<1> QED BY <1>1, PartsMove, PTL DEF Spec, S!Spec

LEMMA TransferAlone == Spec => T!Spec
<1>1. Init => T!Init
  BY DEF Init
<1> QED BY <1>1, PartsMove, PTL DEF Spec, T!Spec

LEMMA WorktreesAlone == Spec => W!Spec
<1>1. Init => W!Init
  BY DEF Init
<1> QED BY <1>1, PartsMove, PTL DEF Spec, W!Spec

LEMMA AdmissionAlone == Spec => A!Spec
<1>1. Init => A!Init
  BY DEF Init
<1> QED BY <1>1, PartsMove, PTL DEF Spec, A!Spec

LEMMA NamesAlone == Spec => N!Spec
<1>1. Init => N!Init
  BY DEF Init
<1> QED BY <1>1, PartsMove, PTL DEF Spec, N!Spec

LEMMA PortsAlone == Spec => O!Spec
<1>1. Init => O!Init
  BY DEF Init
<1> QED BY <1>1, PartsMove, PTL DEF Spec, O!Spec

LEMMA ViewsAlone == Spec => V!Spec
<1>1. Init => V!Init
  BY DEF Init
<1> QED BY <1>1, PartsMove, PTL DEF Spec, V!Spec

LEMMA PolicyAlone == Spec => Y!Spec
<1>1. Init => Y!Init
  BY DEF Init
<1> QED BY <1>1, PartsMove, PTL DEF Spec, Y!Spec

LEMMA PanelAlone == Spec => Z!Spec
<1>1. Init => Z!Init
  BY DEF Init
<1> QED BY <1>1, PartsMove, PTL DEF Spec, Z!Spec

LEMMA IngressAlone == Spec => I!Spec
<1>1. Init => I!Init
  BY DEF Init
<1> QED BY <1>1, PartsMove, PTL DEF Spec, I!Spec

LEMMA EgressAlone == Spec => E!Spec
<1>1. Init => E!Init
  BY DEF Init
<1> QED BY <1>1, PartsMove, PTL DEF Spec, E!Spec

LEMMA ProposalsAlone == Spec => D!Spec
<1>1. Init => D!Init
  BY DEF Init
<1> QED BY <1>1, PartsMove, PTL DEF Spec, D!Spec

LEMMA CallsAlone == Spec => J!Spec
<1>1. Init => J!Init
  BY DEF Init
<1> QED BY <1>1, PartsMove, PTL DEF Spec, J!Spec

LEMMA ReviewsAlone == Spec => R!Spec
<1>1. Init => R!Init
  BY DEF Init
<1> QED BY <1>1, PartsMove, PTL DEF Spec, R!Spec

-----------------------------------------------------------------------------
(* The key a create told is the alias's, in both halves and in what the    *)
(* editor mounts, until its removal is asked for (keyring.ts), and what is *)
(* gone from the disk is in no agent -- unless a crash caught the pair     *)
(* half written.                                                           *)
THEOREM PartsKeysAreKept == Spec => []KeysAreKept
<1>1. K!Spec => []K!KeysAreKept
  BY KeyringAssumption, K!KeyringKeysAreKept
<1>2. K!KeysAreKept => KeysAreKept
  BY DEF KeysAreKept
<1> QED BY KeyringAlone, <1>1, <1>2, PTL

(* A container that runs is on the daemon its target's file names          *)
(* (desolate.ts runTarget and purge).                                      *)
THEOREM PartsRunsWhereSaved == Spec => []RunsWhereSaved
<1>1. S!Spec => []S!RunsWhereSaved
  BY StartsAssumption, S!StartsRunsWhereSaved
<1>2. S!RunsWhereSaved => RunsWhereSaved
  BY DEF RunsWhereSaved
<1> QED BY StartsAlone, <1>1, <1>2, PTL

(* The broker's count is the number of requests it is at (broker.ts).      *)
THEOREM PartsInflightIsCounted == Spec => []InflightIsCounted
<1>1. S!Spec => []S!InflightIsCounted
  BY StartsAssumption, S!StartsInflightIsCounted
<1>2. S!InflightIsCounted => InflightIsCounted
  BY DEF InflightIsCounted
<1> QED BY StartsAlone, <1>1, <1>2, PTL

(* A start that has brought its container up runs nothing with more power  *)
(* than the spec it judged asks for (policy.ts judge, snapshot.ts), as     *)
(* long as none is asked for while one goes on.                            *)
THEOREM PartsNothingBeyondDeclared == ASSUME ~ForStarts.Overtakes PROVE Spec => []NothingBeyondDeclared
<1>1. S!Spec => []S!NothingBeyondDeclared
  BY StartsAssumption, S!StartsNothingBeyondDeclared
<1>2. S!NothingBeyondDeclared => NothingBeyondDeclared
  BY DEF NothingBeyondDeclared
<1> QED BY StartsAlone, <1>1, <1>2, PTL

(* One container at most, of a spec that passes, and none gives way to     *)
(* another but by going down first: starts do what Runs says of them.      *)
THEOREM PartsRunsOnePassed == ASSUME ~ForStarts.Overtakes PROVE Spec => RunsOnePassed
<1>1. S!Spec => S!RunsOnePassed
  BY StartsAssumption, S!StartsImplementsRuns
<1>2. S!RunsOnePassed => RunsOnePassed
  BY DEF RunsOnePassed
<1> QED BY StartsAlone, <1>1, <1>2, PTL

(* What a project is left with has its whole history (transfer.ts).        *)
THEOREM PartsOriginIsWhole == Spec => []OriginIsWhole
<1>1. T!Spec => []T!OriginIsWhole
  BY TransferAssumption, T!TransferOriginIsWhole
<1>2. T!OriginIsWhole => OriginIsWhole
  BY DEF OriginIsWhole
<1> QED BY TransferAlone, <1>1, <1>2, PTL

(* Two are at one registration's cache only when a lock was removed that   *)
(* was made after the one its remover had judged (transfer.ts withLock).   *)
THEOREM PartsOneUnlessStolen == Spec => []OneUnlessStolen
<1>1. T!Spec => []T!OneUnlessStolen
  BY TransferAssumption, T!TransferOneUnlessStolen
<1>2. T!OneUnlessStolen => OneUnlessStolen
  BY DEF OneUnlessStolen
<1> QED BY TransferAlone, <1>1, <1>2, PTL

(* A push of what was reviewed puts that commit on GitHub and no other, a  *)
(* pull moves the project's branch only along its own history.             *)
THEOREM PartsCommitsGoWhereSaid == Spec => CommitsGoWhereSaid
<1>1. T!Spec => T!CommitsGoWhereSaid
  BY TransferAssumption, T!TransferCommitsGoWhereSaid
<1>2. T!CommitsGoWhereSaid => CommitsGoWhereSaid
  BY DEF CommitsGoWhereSaid
<1> QED BY TransferAlone, <1>1, <1>2, PTL

(* No prune by a git in a container that hides the worktrees takes from    *)
(* the list one that was open when it was decided to hide them, however    *)
(* often that container was stopped and started since (worktrees.ts        *)
(* runArgs, desolate.ts devcontainerUp).                                   *)
THEOREM PartsPrunesNoneThatWasOpen == Spec => PrunesNoneThatWasOpen
<1>1. W!Spec => W!PrunesNoneThatWasOpen
  BY WorktreesAssumption, WorktreesPruneNoneThatWasOpen
<1>2. W!PrunesNoneThatWasOpen => PrunesNoneThatWasOpen
  BY DEF PrunesNoneThatWasOpen
<1> QED BY WorktreesAlone, <1>1, <1>2, PTL

(* Work that was never committed goes only with a removal that was told    *)
(* to force it, or that was put there while one went on.                   *)
THEOREM PartsWorkGoesOnlyIfSaid == Spec => WorkGoesOnlyIfSaid
<1>1. W!Spec => W!WorkGoesOnlyIfSaid
  BY WorktreesAssumption, WorktreesWorkGoesOnlyIfSaid
<1>2. W!WorkGoesOnlyIfSaid => WorkGoesOnlyIfSaid
  BY DEF WorkGoesOnlyIfSaid
<1> QED BY WorktreesAlone, <1>1, <1>2, PTL

(* A client that names another's host is not passed on to this port's      *)
(* server, if its first read holds its method and a space and it does not  *)
(* end half way (ingress.py classify, admits).                             *)
THEOREM PartsNothingMisdirected == Spec => []NothingMisdirected
<1>1. A!Spec => []A!NothingMisdirected
  BY AdmissionMisdirectsNothing
<1>2. A!NothingMisdirected => NothingMisdirected
  BY DEF NothingMisdirected
<1> QED BY AdmissionAlone, <1>1, <1>2, PTL

(* A listener's close ends every connection that had begun (ingress.py).   *)
THEOREM PartsCloseReachesAll == Spec => []CloseReachesAll
<1>1. A!Spec => []A!CloseReachesAll
  BY AdmissionCloseReaches
<1>2. A!CloseReachesAll => CloseReachesAll
  BY DEF CloseReachesAll
<1> QED BY AdmissionAlone, <1>1, <1>2, PTL

(* A volume a target's container has goes over only to a name as long or   *)
(* longer, or to a target whose start was judged when the other was not    *)
(* listed (policy.ts mount.owner).                                         *)
THEOREM PartsTakenOnlyByALongerName == Spec => TakenOnlyByALongerName
<1>1. N!Spec => N!TakenOnlyByALongerName
  BY NamesAssumption, NamesTakenOnlyByALongerName
<1>2. N!TakenOnlyByALongerName => TakenOnlyByALongerName
  BY DEF TakenOnlyByALongerName
<1> QED BY NamesAlone, <1>1, <1>2, PTL

(* A port moved by hand is the target's again at its next start, unless    *)
(* somebody took it or the port is below the base (ports.ts).              *)
THEOREM PartsMoveOutlivesARestart == Spec => []MoveOutlivesARestart
<1>1. O!Spec => []O!MoveOutlivesARestart
  BY PortsAssumption, PortsMoveOutlivesARestart
<1>2. O!MoveOutlivesARestart => MoveOutlivesARestart
  BY DEF MoveOutlivesARestart
<1> QED BY PortsAlone, <1>1, <1>2, PTL

(* A view about to be mounted holds no file written over an older version  *)
(* than the one the start wants (desolate.ts overlay, overlay.ts).         *)
THEOREM PartsNothingOldShadows == Spec => []NothingOldShadows
<1>1. V!Spec => []V!NothingOldShadows
  BY ViewsAssumption, ViewsNothingOldShadows
<1>2. V!NothingOldShadows => NothingOldShadows
  BY DEF NothingOldShadows
<1> QED BY ViewsAlone, <1>1, <1>2, PTL

(* GitHub moves only to the commit the person asked to push (model.mts,    *)
(* extension.mts).                                                         *)
THEOREM PartsPushedIsWhatWasAsked == Spec => PushedIsWhatWasAsked
<1>1. Z!Spec => Z!PushedIsWhatWasAsked
  BY PanelAssumption, PanelPushesWhatWasAsked
<1>2. Z!PushedIsWhatWasAsked => PushedIsWhatWasAsked
  BY DEF PushedIsWhatWasAsked
<1> QED BY PanelAlone, <1>1, <1>2, PTL

(* A poll that nothing disturbed leaves the published addresses as the     *)
(* files ask (ingress.py).                                                 *)
THEOREM PartsQuietPollSettles == Spec => QuietPollSettles
<1>1. I!Spec => I!QuietPollSettles
  BY IngressAssumption, IngressQuietPollSettles
<1>2. I!QuietPollSettles => QuietPollSettles
  BY DEF QuietPollSettles
<1> QED BY IngressAlone, <1>1, <1>2, PTL

(* A value goes only where settings.json lets its name go, and comes back  *)
(* as that name (addon.py).                                                *)
THEOREM PartsValuesAreKept == Spec => []ValuesAreKept
<1>1. E!Spec => []E!ValuesAreKept
  BY EgressAssumption, EgressKeepsValues
<1>2. E!ValuesAreKept => ValuesAreKept
  BY DEF ValuesAreKept
<1> QED BY EgressAlone, <1>1, <1>2, PTL

(* A project the runner reads as denied gets only what a rule allows by    *)
(* name, while the files stay as they are (addon.py, restrictions.ts).     *)
THEOREM PartsHeldWhileSteady == Spec => []HeldWhileSteady
<1>1. E!Spec => []E!HeldWhileSteady
  BY EgressAssumption, EgressHoldsWhileSteady
<1>2. E!HeldWhileSteady => HeldWhileSteady
  BY DEF HeldWhileSteady
<1> QED BY EgressAlone, <1>1, <1>2, PTL

(* A proposal is a branch of its own, one commit on a folder's pin         *)
(* (transfer.ts pushUpstream, docker.ts depsScript).                       *)
THEOREM PartsProposesWhatWasBuilt == Spec => ProposesWhatWasBuilt
<1>1. D!Spec => D!ProposesWhatWasBuilt
  BY ProposalsAssumption, ProposalsProposeWhatWasBuilt
<1>2. D!ProposesWhatWasBuilt => ProposesWhatWasBuilt
  BY DEF ProposesWhatWasBuilt
<1> QED BY ProposalsAlone, <1>1, <1>2, PTL

(* A spec is well formed however it is written.                            *)
LEMMA SpecsWellFormed == Spec => [](spec \in Y!Specs)
<1>1. Y!Init => spec \in Y!Specs
  BY PolicyAssumption DEF Y!Constants, Y!Init
<1>2. spec \in Y!Specs /\ [Y!Next]_Y!vars => (spec \in Y!Specs)'
  <2> SUFFICES ASSUME spec \in Y!Specs, [Y!Next]_Y!vars PROVE spec' \in Y!Specs'
    OBVIOUS
  <2>1. Y!Specs' = Y!Specs
    BY DEF Y!Specs, Y!Options, Y!Arguments
  <2>2. CASE Y!Next
    BY <2>1, <2>2, PolicyAssumption, SpecsStayWellFormed
  <2>3. CASE UNCHANGED Y!vars
    BY <2>1, <2>3 DEF Y!vars
  <2> QED BY <2>2, <2>3
<1> QED BY PolicyAlone, <1>1, <1>2, PTL DEF Y!Spec

(* What desolate makes of a spec that passed passes too, pinned and with   *)
(* its workspace and mask, and again once its Dockerfile is built, when    *)
(* the base it is built on grants nothing (policy.ts, desolate.ts          *)
(* deriveRunConfig and the judgements behind it).                          *)
THEOREM PartsDerivedStillPasses == Spec => []DerivedStillPasses
<1>1. spec \in Y!Specs => DerivedStillPasses
  BY WhatIsMadePasses DEF DerivedStillPasses
<1> QED BY SpecsWellFormed, <1>1, PTL

(* What docker reads of the arguments of a spec that passed is what the    *)
(* policy judged of them, the mask included: no flag, mount or option of   *)
(* the container lies beyond it (policy.ts, docker-flags.ts).              *)
THEOREM PartsNothingReachesPast == Spec => []NothingReachesPast
<1>1. spec \in Y!Specs => NothingReachesPast
  BY WhatRunsIsWhatWasJudged DEF NothingReachesPast
<1> QED BY SpecsWellFormed, <1>1, PTL

-----------------------------------------------------------------------------
(* Reviews: what one lists of the files, and what it misses.               *)
LEMMA ReviewsConstants ==
  /\ ForReviews.Commits \in SUBSET Nat /\ 0 \notin ForReviews.Commits /\ IsFiniteSet(ForReviews.Commits)
  /\ ForReviews.Anc \in [ForReviews.Commits -> SUBSET ForReviews.Commits]
  /\ ForReviews.FilesMax \in Nat /\ ForReviews.CommitsMax \in Nat
<1>1. \A s : R!IsFiniteSet(s) => IsFiniteSet(s)
  BY DEF R!IsFiniteSet, IsFiniteSet
<1> QED BY ReviewsAssumption, <1>1 DEF R!Constants

LEMMA CountsAlike == \A s : R!Cardinality(s) = Cardinality(s)
BY DEF R!Cardinality, Cardinality

(* Of what a set has, its greatest number is one.                          *)
LEMMA GreatestIsIn ==
  ASSUME NEW s \in SUBSET Nat, IsFiniteSet(s), s # {} PROVE R!Max(s) \in s
<1>1. PICK m \in s : \A n \in s : n =< m
  BY LargestExists
<1>2. \A n \in s : m >= n
  BY <1>1
<1> QED BY <1>2, Zenon DEF R!Max

(* No more than are shown: each is.                                        *)
LEMMA NewestAreAll ==
  ASSUME NEW range \in SUBSET ForReviews.Commits, NEW n \in range,
         R!Cardinality(range) =< ForReviews.CommitsMax
  PROVE  n \in R!Newest(range)
<1> DEFINE later == {d \in range : d > n}
<1>1. IsFiniteSet(range) /\ range \in SUBSET Nat
  BY ReviewsConstants, FS_Subset
<1>2. later \in SUBSET (range \ {n})
  BY <1>1
<1>3. IsFiniteSet(range \ {n}) /\ Cardinality(range \ {n}) = Cardinality(range) - 1
  BY <1>1, FS_RemoveElement
<1>4. IsFiniteSet(later) /\ Cardinality(later) =< Cardinality(range \ {n})
  <2> HIDE DEF later
  <2> QED BY <1>2, <1>3, FS_Subset
<1>5. Cardinality(range) \in Nat /\ Cardinality(later) \in Nat
  <2> HIDE DEF later
  <2> QED BY <1>1, <1>4, FS_CardinalityType
<1>6. R!Cardinality(later) < ForReviews.CommitsMax
  <2> HIDE DEF later
  <2> QED BY <1>3, <1>4, <1>5, CountsAlike, ReviewsConstants
<1> QED BY <1>6, Zenon DEF R!Newest

(* No more than are listed: each has its number.                           *)
Rank(paths, p) == Cardinality({q \in paths : q < p})
LEMMA RanksDiffer ==
  ASSUME NEW paths \in SUBSET Nat, IsFiniteSet(paths), NEW p \in paths, NEW q \in paths, q < p
  PROVE  Rank(paths, q) < Rank(paths, p)
<1> DEFINE below(x) == {y \in paths : y < x}
<1>1. below(q) \in SUBSET below(p)
  <2>1. \A x \in paths : x < q => x < p
    OBVIOUS
  <2> QED BY <2>1
<1>2. q \in below(p) /\ q \notin below(q) /\ below(p) \in SUBSET paths
  OBVIOUS
<1> HIDE DEF below
<1>3. IsFiniteSet(below(p)) /\ IsFiniteSet(below(q))
  BY <1>1, <1>2, FS_Subset
<1>4. Cardinality(below(q)) =< Cardinality(below(p)) /\ Cardinality(below(q)) # Cardinality(below(p))
  BY <1>1, <1>2, <1>3, FS_Subset
<1>5. Cardinality(below(q)) \in Nat /\ Cardinality(below(p)) \in Nat
  BY <1>3, FS_CardinalityType
<1> QED BY <1>4, <1>5 DEF Rank, below

LEMMA NumberedIsIt ==
  ASSUME NEW paths \in SUBSET Nat, IsFiniteSet(paths), NEW p \in paths
  PROVE  /\ Rank(paths, p) + 1 \in 1..Cardinality(paths)
         /\ R!Nth(paths, Rank(paths, p) + 1) = p
<1> DEFINE below == {q \in paths : q < p}
<1>1. below \in SUBSET (paths \ {p})
  OBVIOUS
<1>2. IsFiniteSet(paths \ {p}) /\ Cardinality(paths \ {p}) = Cardinality(paths) - 1
  BY FS_RemoveElement
<1>3. IsFiniteSet(below) /\ Cardinality(below) =< Cardinality(paths \ {p})
  <2> HIDE DEF below
  <2> QED BY <1>1, <1>2, FS_Subset
<1>4. Cardinality(below) \in Nat /\ Cardinality(paths) \in Nat
  <2> HIDE DEF below
  <2> QED BY <1>3, FS_CardinalityType
<1>5. Rank(paths, p) = Cardinality(below)
  BY DEF Rank
<1> HIDE DEF below
<1>6. Rank(paths, p) + 1 \in 1..Cardinality(paths)
  BY <1>2, <1>3, <1>4, <1>5
<1>7. \A q \in paths : q # p => Rank(paths, q) # Rank(paths, p)
  <2> TAKE q \in paths
  <2>1. q < p \/ p < q \/ q = p
    OBVIOUS
  <2>2. ASSUME NEW x \in paths, NEW y \in paths, x < y PROVE Rank(paths, x) # Rank(paths, y)
    <3>1. \A z \in paths : Rank(paths, z) \in Nat
      <4> TAKE z \in paths
      <4>1. {r \in paths : r < z} \in SUBSET paths
        OBVIOUS
      <4> QED BY <4>1, FS_Subset, FS_CardinalityType DEF Rank
    <3> QED BY <2>2, <3>1, RanksDiffer
  <2> QED BY <2>1, <2>2
<1> DEFINE i == Rank(paths, p) + 1
           It(q) == R!Cardinality({x \in paths : x < q}) = i - 1
<1>8. \A q \in paths : It(q) <=> q = p
  <2> TAKE q \in paths
  <2>1. R!Cardinality({x \in paths : x < q}) = Rank(paths, q)
    BY CountsAlike DEF Rank
  <2>2. i - 1 = Rank(paths, p)
    BY <1>4, <1>5
  <2> HIDE DEF i
  <2> QED BY <1>7, <2>1, <2>2
<1>9. R!Nth(paths, i) = CHOOSE q \in paths : It(q)
  BY DEF R!Nth
<1>10. R!Nth(paths, i) = p
  <2> HIDE DEF i, It
  <2> QED BY <1>8, <1>9
<1> QED BY <1>6, <1>10

LEMMA PathsAreNumbers ==
  ASSUME NEW old, NEW new \in ForReviews.Commits \union {0}
  PROVE  R!Differ(old, new) \in SUBSET Nat /\ IsFiniteSet(R!Differ(old, new))
<1> DEFINE paths == DOMAIN ForReviews.Tree[new]
<1>1. ForReviews.Tree[new] \in Seq(Nat)
  BY ReviewsAssumption DEF R!Constants
<1>2. paths = 1..Len(ForReviews.Tree[new]) /\ Len(ForReviews.Tree[new]) \in Nat
  BY <1>1, LenProperties
<1> HIDE DEF paths
<1>3. paths \in SUBSET Nat /\ IsFiniteSet(paths)
  BY <1>2, FS_Interval
<1>4. R!Differ(old, new) \in SUBSET paths
  BY DEF R!Differ, paths
<1> QED BY <1>3, <1>4, FS_Subset

LEMMA FilesAre ==
  ASSUME NEW old \in ForReviews.Commits \union {0}, NEW new \in ForReviews.Commits \union {0}
  PROVE  LET n == R!Min({ForReviews.FilesMax, R!Cardinality(R!Differ(old, new))}) IN
         /\ n \in Nat /\ n =< ForReviews.FilesMax
         /\ R!Cardinality(R!Differ(old, new)) =< ForReviews.FilesMax => n = R!Cardinality(R!Differ(old, new))
         /\ DOMAIN R!Files(old, new) = 1..n
         /\ \A i \in 1..n : R!Files(old, new)[i].path = R!Nth(R!Differ(old, new), i)
<1> DEFINE paths == R!Differ(old, new)
           n == R!Min({ForReviews.FilesMax, R!Cardinality(paths)})
<1>1. PICK total :
        R!Files(old, new) =
          [i \in 1..n |-> [path |-> R!Nth(paths, i),
                           kind |-> R!Kind(old, new, R!Nth(paths, i), total[i - 1]),
                           a |-> ForReviews.Tree[old][R!Nth(paths, i)],
                           b |-> ForReviews.Tree[new][R!Nth(paths, i)]]]
  BY Zenon DEF R!Files
<1>2. R!Cardinality(paths) \in Nat
  BY PathsAreNumbers, FS_CardinalityType, CountsAlike
<1> HIDE DEF paths
<1>3. n \in {ForReviews.FilesMax, R!Cardinality(paths)} /\ n =< ForReviews.FilesMax /\ n =< R!Cardinality(paths)
  <2> DEFINE s == {ForReviews.FilesMax, R!Cardinality(paths)}
  <2>1. \E x \in s : \A y \in s : x =< y
    BY <1>2, ReviewsConstants
  <2>2. R!Min(s) \in s /\ \A y \in s : R!Min(s) =< y
    <3> HIDE DEF s
    <3> QED BY <2>1, Zenon DEF R!Min
  <2> QED BY <2>2
<1> HIDE DEF n
<1>4. DOMAIN R!Files(old, new) = 1..n /\ \A i \in 1..n : R!Files(old, new)[i].path = R!Nth(paths, i)
  BY <1>1
<1>5. n \in Nat /\ n =< ForReviews.FilesMax
      /\ (R!Cardinality(paths) =< ForReviews.FilesMax => n = R!Cardinality(paths))
  BY <1>2, <1>3, ReviewsConstants
<1> QED BY <1>4, <1>5 DEF n, paths

LEMMA AllAreListed ==
  ASSUME NEW old \in ForReviews.Commits \union {0}, NEW new \in ForReviews.Commits \union {0},
         NEW p \in R!Differ(old, new),
         R!Cardinality(R!Differ(old, new)) =< ForReviews.FilesMax
  PROVE  \E i \in DOMAIN R!Files(old, new) : R!Files(old, new)[i].path = p
<1> DEFINE paths == R!Differ(old, new)
           i == Rank(paths, p) + 1
<1>1. paths \in SUBSET Nat /\ IsFiniteSet(paths) /\ p \in paths
  BY PathsAreNumbers
<1> HIDE DEF paths
<1>2. i \in 1..Cardinality(paths) /\ R!Nth(paths, i) = p
  BY <1>1, NumberedIsIt
<1> HIDE DEF i
<1>3. DOMAIN R!Files(old, new) = 1..R!Cardinality(paths)
      /\ \A j \in 1..R!Cardinality(paths) : R!Files(old, new)[j].path = R!Nth(paths, j)
  BY FilesAre DEF paths
<1> QED BY <1>2, <1>3, CountsAlike

(* The repository, the commands and the directory.                         *)
Repository ==
  /\ checkedOut \in [branch : ForReviews.Branches \union {ForReviews.None}, commit : ForReviews.Commits]
  /\ branchAt \in [ForReviews.Branches -> ForReviews.Commits \union {0}]
  /\ tracking \in [ForReviews.Branches -> ForReviews.Commits \union {0}]
  /\ checkedOut.branch # ForReviews.None => branchAt[checkedOut.branch] = checkedOut.commit
Review(r) ==
  /\ DOMAIN r = {"head", "branch", "base", "baseCommit", "from", "ahead", "behind", "commits",
                 "files", "more"}
  /\ r.base \in ForReviews.Branches \union {ForReviews.None}
  /\ r.from \in ForReviews.Commits \union {0}
  /\ DOMAIN r.files \subseteq 1..ForReviews.FilesMax
Command(k) ==
  /\ DOMAIN k = {"step", "review", "todo", "steady", "alone"} /\ Review(k.review)
  /\ k.todo \subseteq 1..ForReviews.FilesMax
Reviewing ==
  /\ DOMAIN reviewer = ForReviews.Clients /\ \A c \in ForReviews.Clients : Command(reviewer[c])
  /\ DOMAIN sides = (1..ForReviews.FilesMax) \X R!Sides
  /\ sent.branch \in ForReviews.Branches \union {ForReviews.None}
World == Repository /\ Reviewing

LEMMA NoSidesAreAllEmpty ==
  /\ DOMAIN R!NoSides = (1..ForReviews.FilesMax) \X R!Sides
  /\ \A i \in 1..ForReviews.FilesMax, s \in R!Sides : R!NoSides[<<i, s>>] = 0
<1> DEFINE places == {<<i, s>> : i \in 1..ForReviews.FilesMax, s \in R!Sides}
<1>1. places = (1..ForReviews.FilesMax) \X R!Sides
  OBVIOUS
<1>2. \A i \in 1..ForReviews.FilesMax, s \in R!Sides : <<i, s>> \in places
  OBVIOUS
<1> HIDE DEF places
<1>3. R!NoSides = [at \in places |-> 0]
  BY DEF R!NoSides, places
<1> QED BY <1>1, <1>2, <1>3

LEMMA WorldInitially == R!Init => World
<1> SUFFICES ASSUME R!Init PROVE World
  OBVIOUS
<1>1. Repository
  BY ReviewsAssumption DEF R!Init, R!Constants, Repository
<1>2. Command(R!Idle)
  BY DEF R!Idle, R!NoReview, Command, Review
<1>3. Reviewing
  BY <1>2, NoSidesAreAllEmpty DEF R!Init, R!NoPush, Reviewing
<1> QED BY <1>1, <1>3 DEF World

LEMMA RepositoryStep == ASSUME Repository, [R!Next]_R!vars PROVE Repository'
<1> USE DEF Repository
<1>1. CASE R!AgentCommits
  BY <1>1 DEF R!AgentCommits
<1>2. CASE R!AgentSwitches
  BY <1>2 DEF R!AgentSwitches
<1>3. CASE R!AgentDetaches
  BY <1>3 DEF R!AgentDetaches
<1>4. CASE R!Fetches
  BY <1>4 DEF R!Fetches
<1>5. CASE UNCHANGED <<branchAt, checkedOut, tracking>>
  BY <1>5
<1>6. ASSUME NEW c \in ForReviews.Clients,
             \/ R!Begin(c) \/ R!ReadHead(c) \/ R!ReadBranch(c) \/ R!ReadBase(c) \/ R!Count(c) \/ R!Diff(c)
             \/ R!GivesUp(c) \/ R!Empties(c) \/ R!Killed(c) \/ R!Kept(c) \/ R!Shows(c) \/ R!Prints(c)
             \/ \E i \in 1..ForReviews.FilesMax : R!Keeps(c, i)
      PROVE  UNCHANGED <<branchAt, checkedOut, tracking>>
  BY <1>6, Zenon DEF R!Begin, R!ReadHead, R!ReadBranch, R!ReadBase, R!Count, R!Diff, R!GivesUp,
     R!Empties, R!Killed, R!Kept, R!Shows, R!Prints, R!Keeps, R!Says, R!Goes
<1>7. CASE R!Pushes \/ UNCHANGED R!vars
  BY <1>5, <1>7 DEF R!Pushes, R!vars
<1> QED BY <1>1, <1>2, <1>3, <1>4, <1>5, <1>6, <1>7 DEF R!Next

(* What one command does leaves the others as they are.                    *)
LEMMA OneGoes ==
  ASSUME Reviewing, NEW c \in ForReviews.Clients, NEW next, R!Goes(c, next)
  PROVE  /\ DOMAIN reviewer' = ForReviews.Clients /\ reviewer'[c] = next
         /\ \A d \in ForReviews.Clients : d # c => reviewer'[d] = reviewer[d]
         /\ UNCHANGED <<branchAt, checkedOut, tracking, sides, reviewShown, sent>>
BY DEF Reviewing, R!Goes

(* A command that reads on.                                                *)
LEMMA OneSays ==
  ASSUME Reviewing, NEW c \in ForReviews.Clients, NEW at, NEW review, R!Says(c, at, review), Review(review)
  PROVE  \E next : /\ R!Goes(c, next) /\ Command(next)
                   /\ next.step = at /\ next.review = review /\ next.steady = reviewer[c].steady
<1>1. Command(reviewer[c])
  BY DEF Reviewing
<1> DEFINE next == [reviewer[c] EXCEPT !.step = at, !.review = review]
<1>2. R!Goes(c, next)
  BY DEF R!Says
<1>3. /\ next.step = at /\ next.review = review /\ next.steady = reviewer[c].steady
      /\ Command(next)
  BY <1>1 DEF Command
<1> HIDE DEF next
<1> QED BY <1>2, <1>3

(* What is on GitHub, and what is said to be missing there.                *)
Theirs == UNION {ForReviews.Anc[tracking[b]] : b \in R!Known}
CommitsListed(r) ==
  \A n \in ForReviews.Anc[checkedOut.commit] \ Theirs :
    n \in r.commits \/ r.ahead > ForReviews.CommitsMax
PathsListed(r) ==
  \A p \in DOMAIN ForReviews.Tree[checkedOut.commit] :
    (\A t \in Theirs \union {0} : ForReviews.Tree[t][p] # ForReviews.Tree[checkedOut.commit][p]) =>
      r.more \/ \E i \in DOMAIN r.files : r.files[i].path = p

LEMMA TheirsAreCommits ==
  ASSUME Repository
  PROVE  /\ Theirs \in SUBSET ForReviews.Commits
         /\ \A b \in ForReviews.Branches : tracking[b] # 0 =>
              /\ tracking[b] \in ForReviews.Commits
              /\ ForReviews.Anc[tracking[b]] \in SUBSET Theirs
<1>1. \A b \in ForReviews.Branches : tracking[b] # 0 =>
        b \in R!Known /\ tracking[b] \in ForReviews.Commits
  BY DEF Repository, R!Known
<1>2. \A b \in R!Known : b \in ForReviews.Branches /\ tracking[b] # 0
  BY DEF R!Known
<1>3. \A b \in R!Known : ForReviews.Anc[tracking[b]] \in SUBSET ForReviews.Commits
  BY <1>1, <1>2, ReviewsConstants
<1> QED BY <1>1, <1>2, <1>3 DEF Theirs

(* The count is of what HEAD has beyond the base, which is theirs.         *)
LEMMA CountSays ==
  ASSUME World, NEW c \in ForReviews.Clients, R!Count(c)
  PROVE  \E r : R!Says(c, "diff", r) /\ Review(r) /\ CommitsListed(r) /\ r.from \in Theirs \union {0}
<1> DEFINE review == reviewer[c].review
           its == IF review.base = ForReviews.None THEN 0 ELSE tracking[review.base]
           has == IF its = 0 THEN {} ELSE ForReviews.Anc[its]
           range == ForReviews.Anc[checkedOut.commit] \ has
           from == IF its = 0 THEN 0
                   ELSE R!Max({0} \union (has \intersect ForReviews.Anc[checkedOut.commit]))
           ahead == R!Cardinality(range)
           behind == R!Cardinality(R!Behind(has, checkedOut.commit))
           r == [review EXCEPT !.baseCommit = its, !.from = from, !.ahead = ahead, !.behind = behind,
                               !.commits = R!Newest(range)]
<1>1. R!Says(c, "diff", r)
  BY Zenon DEF R!Count, R!Beyond
<1>2. Repository /\ Review(review) /\ checkedOut.commit \in ForReviews.Commits
  BY DEF World, Reviewing, Command, Repository
<1> HIDE DEF review
<1>3. its \in ForReviews.Commits \union {0} /\ has \in SUBSET Theirs
  BY <1>2, TheirsAreCommits DEF Review, Repository
<1> HIDE DEF its
<1>4. has \in SUBSET ForReviews.Commits /\ range \in SUBSET ForReviews.Commits
  BY <1>2, <1>3, ReviewsConstants
<1> HIDE DEF has
<1>5. from \in Theirs \union {0} /\ from \in ForReviews.Commits \union {0}
  <2> DEFINE both == {0} \union (has \intersect ForReviews.Anc[checkedOut.commit])
  <2>1. has \in SUBSET Nat /\ IsFiniteSet(has)
    BY <1>4, ReviewsConstants, FS_Subset
  <2>2. both \in SUBSET ({0} \union has) /\ both # {}
    OBVIOUS
  <2> HIDE DEF both
  <2>3. IsFiniteSet({0} \union has)
    <3>1. IsFiniteSet(has \union {0}) /\ has \union {0} = {0} \union has
      BY <2>1, FS_AddElement
    <3> QED BY <3>1
  <2>4. both \in SUBSET Nat /\ IsFiniteSet(both)
    <3> DEFINE all == {0} \union has
    <3>1. all \in SUBSET Nat
      BY <2>1
    <3>2. both \in SUBSET all /\ IsFiniteSet(all)
      BY <2>2, <2>3
    <3> HIDE DEF all
    <3> QED BY <3>1, <3>2, FS_Subset
  <2>5. R!Max(both) \in both
    BY <2>2, <2>4, GreatestIsIn
  <2> QED BY <1>3, <1>4, <2>2, <2>5 DEF both
<1> HIDE DEF from
<1>6. \A n \in ForReviews.Anc[checkedOut.commit] \ Theirs :
        n \in R!Newest(range) \/ ahead > ForReviews.CommitsMax
  <2> TAKE n \in ForReviews.Anc[checkedOut.commit] \ Theirs
  <2>1. n \in range
    BY <1>3
  <2>2. ahead \in Nat
    BY <1>4, ReviewsConstants, FS_Subset, FS_CardinalityType, CountsAlike
  <2> HIDE DEF range
  <2>3. ahead =< ForReviews.CommitsMax => n \in R!Newest(range)
    BY <1>4, <2>1, NewestAreAll
  <2> HIDE DEF ahead
  <2> QED BY <2>2, <2>3, ReviewsConstants
<1> DEFINE newest == R!Newest(range)
<1> HIDE DEF range, ahead, behind, newest
<1>7. Review(r) /\ r.from = from /\ r.ahead = ahead /\ r.commits = newest
  BY <1>2, <1>5 DEF Review, newest
<1> HIDE DEF r
<1>8. CommitsListed(r)
  BY <1>6, <1>7 DEF CommitsListed, newest
<1> QED BY <1>1, <1>5, <1>7, <1>8

(* The files are those that differ from a commit of theirs.                *)
LEMMA DiffSays ==
  ASSUME World, NEW c \in ForReviews.Clients, R!Diff(c)
  PROVE  \E r : /\ R!Says(c, "said", r) /\ Review(r)
                /\ CommitsListed(reviewer[c].review) => CommitsListed(r)
                /\ reviewer[c].review.from \in Theirs \union {0} => PathsListed(r) /\ r.from \in Theirs \union {0}
<1> DEFINE review == reviewer[c].review
           differ == R!Differ(review.from, checkedOut.commit)
           files == R!Files(review.from, checkedOut.commit)
           more == R!Cardinality(differ) > ForReviews.FilesMax
           r == [review EXCEPT !.files = files, !.more = more]
<1>1. R!Says(c, "said", r)
  BY Zenon DEF R!Diff
<1>2. Repository /\ Review(review) /\ checkedOut.commit \in ForReviews.Commits
  BY DEF World, Reviewing, Command, Repository
<1>3. review.from \in ForReviews.Commits \union {0}
  BY <1>2 DEF Review
<1> HIDE DEF review
<1>4. DOMAIN files \subseteq 1..ForReviews.FilesMax
  <2> DEFINE n == R!Min({ForReviews.FilesMax, R!Cardinality(differ)})
  <2>1. n \in Nat /\ n =< ForReviews.FilesMax /\ DOMAIN files = 1..n
    BY <1>2, <1>3, FilesAre
  <2> HIDE DEF n, files
  <2> QED BY <2>1, ReviewsConstants
<1>5. ASSUME NEW p \in differ PROVE more \/ \E i \in DOMAIN files : files[i].path = p
  <2>1. R!Cardinality(differ) \in Nat
    BY <1>2, PathsAreNumbers, FS_CardinalityType, CountsAlike
  <2>2. R!Cardinality(differ) =< ForReviews.FilesMax => \E i \in DOMAIN files : files[i].path = p
    BY <1>2, <1>3, <1>5, AllAreListed
  <2> HIDE DEF differ, files
  <2> QED BY <2>1, <2>2, ReviewsConstants
<1> HIDE DEF files, more
<1>6. Review(r) /\ r.from = review.from /\ r.ahead = review.ahead /\ r.commits = review.commits
      /\ r.files = files /\ r.more = more
  BY <1>2, <1>4 DEF Review
<1> HIDE DEF r
<1>7. CommitsListed(review) => CommitsListed(r)
  BY <1>6 DEF CommitsListed
<1>8. ASSUME review.from \in Theirs \union {0} PROVE PathsListed(r)
  <2> SUFFICES ASSUME NEW p \in DOMAIN ForReviews.Tree[checkedOut.commit],
                      \A t \in Theirs \union {0} : ForReviews.Tree[t][p] # ForReviews.Tree[checkedOut.commit][p]
               PROVE  more \/ \E i \in DOMAIN files : files[i].path = p
    BY <1>6 DEF PathsListed
  <2>1. p \in differ
    BY <1>8 DEF R!Differ
  <2> QED BY <1>5, <2>1
<1> QED BY <1>1, <1>6, <1>7, <1>8 DEF review

(* A steady review misses nothing of what has been read.                   *)
Listed(k) ==
  /\ k.steady /\ k.step \in {"diff", "said", "keeping", "kept"} =>
       CommitsListed(k.review) /\ k.review.from \in Theirs \union {0}
  /\ k.steady /\ k.step \in {"said", "keeping", "kept"} => PathsListed(k.review)
(* The directory has what was kept so far of one that is alone.            *)
Filled(k) ==
  \A i \in 1..ForReviews.FilesMax, s \in R!Sides :
    sides[<<i, s>>] = IF i \in R!Texts(k.review.files) /\ i \notin k.todo THEN k.review.files[i][s] ELSE 0
Keeping(c) ==
  LET k == reviewer[c] IN
  /\ k.step = "keeping" => k.todo \subseteq R!Texts(k.review.files)
  /\ k.step = "kept" => k.todo = {}
  /\ k.step \in {"keeping", "kept"} /\ k.alone =>
       Filled(k) /\ \A d \in ForReviews.Clients : d # c => reviewer[d].step # "keeping"

(* What a command does before it keeps anything, and once it has.          *)
LEMMA GoesOn ==
  ASSUME World, NEW c \in ForReviews.Clients, Listed(reviewer[c]),
         \/ R!Begin(c) \/ R!ReadHead(c) \/ R!ReadBranch(c) \/ R!ReadBase(c) \/ R!Count(c) \/ R!Diff(c)
         \/ R!GivesUp(c) \/ R!Killed(c) \/ R!Kept(c) \/ R!Prints(c)
  PROVE  \E next : /\ R!Goes(c, next) /\ Command(next) /\ Listed(next)
                   /\ next.step # "keeping"
                   /\ next.step = "kept" =>
                        /\ reviewer[c].step = "keeping" /\ reviewer[c].todo = {}
                        /\ next.todo = {} /\ next.review = reviewer[c].review
                        /\ next.alone = reviewer[c].alone
<1> DEFINE k == reviewer[c]
<1>1. Reviewing /\ Command(k) /\ Review(k.review)
  BY DEF World, Reviewing, Command
<1>2. CASE R!Begin(c)
  <2> DEFINE next == [R!Idle EXCEPT !.step = "head", !.steady = TRUE]
  <2>1. Command(next) /\ next.step = "head"
    BY DEF R!Idle, R!NoReview, Command, Review
  <2>2. R!Goes(c, next)
    BY <1>2 DEF R!Begin
  <2> HIDE DEF next
  <2> QED BY <2>1, <2>2 DEF Listed
<1>3. CASE R!GivesUp(c) \/ R!Killed(c) \/ R!Prints(c)
  <2>1. R!Goes(c, R!Idle)
    BY <1>3, Zenon DEF R!GivesUp, R!Killed, R!Prints
  <2>2. Command(R!Idle) /\ R!Idle.step = "idle"
    BY DEF R!Idle, R!NoReview, Command, Review
  <2> QED BY <2>1, <2>2 DEF Listed
<1>4. CASE R!Kept(c)
  <2> DEFINE next == [k EXCEPT !.step = "kept"]
  <2>1. R!Goes(c, next) /\ k.step = "keeping" /\ k.todo = {}
    BY <1>4 DEF R!Kept, R!At
  <2>2. /\ Command(next) /\ next.step = "kept" /\ next.review = k.review /\ next.todo = k.todo
        /\ next.alone = k.alone /\ next.steady = k.steady
    BY <1>1 DEF Command
  <2> HIDE DEF next
  <2>3. Listed(next)
    BY <2>1, <2>2 DEF Listed
  <2> QED BY <2>1, <2>2, <2>3
<1>5. ASSUME NEW at \in {"branch", "base", "count"}, NEW r, R!Says(c, at, r), Review(r)
      PROVE  \E next : /\ R!Goes(c, next) /\ Command(next) /\ Listed(next)
                       /\ next.step # "keeping" /\ next.step # "kept"
  <2>1. PICK next : R!Goes(c, next) /\ Command(next) /\ next.step = at
    BY <1>1, <1>5, OneSays
  <2> QED BY <2>1 DEF Listed
<1>6. CASE R!ReadHead(c)
  <2>1. Review([R!NoReview EXCEPT !.head = checkedOut.commit])
    BY DEF R!NoReview, Review
  <2> QED BY <1>5, <1>6, <2>1 DEF R!ReadHead
<1>7. CASE R!ReadBranch(c)
  <2>1. Review([k.review EXCEPT !.branch = checkedOut.branch])
    BY <1>1 DEF Review
  <2> QED BY <1>5, <1>7, <2>1 DEF R!ReadBranch
<1>8. CASE R!ReadBase(c)
  <2>1. PICK b \in R!Bases(k.review.branch) : R!Says(c, "count", [k.review EXCEPT !.base = b])
    BY <1>8 DEF R!ReadBase
  <2>2. b \in ForReviews.Branches \union {ForReviews.None}
    BY DEF R!Bases, R!Known
  <2>3. Review([k.review EXCEPT !.base = b])
    BY <1>1, <2>2 DEF Review
  <2> QED BY <1>5, <2>1, <2>3
<1>9. CASE R!Count(c)
  <2>1. PICK r : R!Says(c, "diff", r) /\ Review(r) /\ CommitsListed(r) /\ r.from \in Theirs \union {0}
    BY <1>9, CountSays
  <2>2. PICK next : R!Goes(c, next) /\ Command(next) /\ next.step = "diff" /\ next.review = r
    BY <1>1, <2>1, OneSays
  <2> QED BY <2>1, <2>2 DEF Listed
<1>10. CASE R!Diff(c)
  <2>1. PICK r : /\ R!Says(c, "said", r) /\ Review(r)
                 /\ CommitsListed(k.review) => CommitsListed(r)
                 /\ k.review.from \in Theirs \union {0} => PathsListed(r) /\ r.from \in Theirs \union {0}
    BY <1>10, DiffSays
  <2>2. PICK next : R!Goes(c, next) /\ Command(next) /\ next.step = "said" /\ next.review = r
                    /\ next.steady = k.steady
    BY <1>1, <2>1, OneSays
  <2>3. k.step = "diff"
    BY <1>10 DEF R!Diff, R!At
  <2> QED BY <2>1, <2>2, <2>3 DEF Listed
<1> QED BY <1>2, <1>3, <1>4, <1>6, <1>7, <1>8, <1>9, <1>10

InOrder == Reviewing /\ \A d \in ForReviews.Clients : Listed(reviewer[d]) /\ Keeping(d)
Whole == Repository /\ InOrder

LEMMA ListedAsBefore ==
  ASSUME NEW c, NEW k, reviewer'[c] = k, Listed(k), UNCHANGED <<checkedOut, tracking>>
  PROVE  Listed(reviewer[c])'
<1>1. Theirs' = Theirs
  BY DEF Theirs, R!Known
<1> QED BY <1>1 DEF Listed, CommitsListed, PathsListed

(* A command that is not keeping stays out of the way of one that is.      *)
LEMMA KeepingAsBefore ==
  ASSUME NEW d \in ForReviews.Clients, Keeping(d), UNCHANGED sides, reviewer'[d] = reviewer[d],
         \A e \in ForReviews.Clients : reviewer'[e].step = "keeping" => reviewer[e].step = "keeping"
  PROVE  Keeping(d)'
BY DEF Keeping, Filled

LEMMA GoesOnWhole ==
  ASSUME Whole, NEW c \in ForReviews.Clients,
         \/ R!Begin(c) \/ R!ReadHead(c) \/ R!ReadBranch(c) \/ R!ReadBase(c) \/ R!Count(c) \/ R!Diff(c)
         \/ R!GivesUp(c) \/ R!Killed(c) \/ R!Kept(c) \/ R!Prints(c)
  PROVE  InOrder'
<1>1. World /\ Reviewing /\ \A d \in ForReviews.Clients : Listed(reviewer[d]) /\ Keeping(d)
  BY DEF Whole, InOrder, World
<1>2. PICK next : /\ R!Goes(c, next) /\ Command(next) /\ Listed(next)
                  /\ next.step # "keeping"
                  /\ next.step = "kept" =>
                       /\ reviewer[c].step = "keeping" /\ reviewer[c].todo = {}
                       /\ next.todo = {} /\ next.review = reviewer[c].review
                       /\ next.alone = reviewer[c].alone
  BY <1>1, GoesOn
<1>3. /\ DOMAIN reviewer' = ForReviews.Clients /\ reviewer'[c] = next
      /\ \A d \in ForReviews.Clients : d # c => reviewer'[d] = reviewer[d]
      /\ UNCHANGED <<branchAt, checkedOut, tracking, sides, reviewShown, sent>>
  BY <1>1, <1>2, OneGoes
<1>4. Reviewing'
  BY <1>1, <1>2, <1>3 DEF Reviewing, R!Sides, Command, Review
<1>5. ASSUME NEW d \in ForReviews.Clients PROVE Listed(reviewer[d])'
  BY <1>1, <1>2, <1>3, ListedAsBefore
<1>6. \A e \in ForReviews.Clients : reviewer'[e].step = "keeping" => reviewer[e].step = "keeping"
  BY <1>2, <1>3
<1>7. ASSUME NEW d \in ForReviews.Clients PROVE Keeping(d)'
  <2>1. CASE d # c
    BY <1>1, <1>3, <1>6, <2>1, KeepingAsBefore
  <2>2. CASE d = c
    <3>1. CASE next.step = "kept"
      <4>1. next.alone => Filled(reviewer[c]) /\ \A e \in ForReviews.Clients : e # c => reviewer[e].step # "keeping"
        BY <1>1, <1>2, <3>1 DEF Keeping
      <4>2. ASSUME Filled(reviewer[c]) PROVE Filled(reviewer[c])'
        <5>1. UNCHANGED sides /\ reviewer'[c].todo = reviewer[c].todo /\ reviewer'[c].review = reviewer[c].review
          BY <1>2, <1>3, <3>1
        <5> QED BY <4>2, <5>1, Zenon DEF Filled
      <4> QED BY <1>2, <1>3, <1>6, <2>2, <3>1, <4>1, <4>2 DEF Keeping
    <3>2. CASE next.step # "kept"
      BY <1>2, <1>3, <2>2, <3>2 DEF Keeping
    <3> QED BY <3>1, <3>2
  <2> QED BY <2>1, <2>2
<1> QED BY <1>4, <1>5, <1>7 DEF InOrder

(* The directory is emptied: nobody who was at it is alone there.          *)
LEMMA EmptiesWhole ==
  ASSUME Whole, NEW c \in ForReviews.Clients, R!Empties(c)
  PROVE  InOrder'
<1> DEFINE k == reviewer[c]
           nobody == \A d \in ForReviews.Clients : reviewer[d].step # "keeping"
           next == [k EXCEPT !.step = "keeping", !.todo = R!Texts(k.review.files), !.alone = nobody]
           others(d) == [reviewer[d] EXCEPT !.alone = FALSE]
<1>1. Reviewing /\ Command(k) /\ \A d \in ForReviews.Clients : Listed(reviewer[d]) /\ Keeping(d)
  BY DEF Whole, InOrder, Reviewing
<1>2. /\ k.step = "said" /\ sides' = R!NoSides
      /\ reviewer' = [d \in ForReviews.Clients |-> IF d = c THEN next ELSE others(d)]
      /\ UNCHANGED <<branchAt, checkedOut, tracking, reviewShown, sent>>
  BY Zenon DEF R!Empties, R!At, R!Emptied
<1>3. nobody \in BOOLEAN
  OBVIOUS
<1>4. R!Texts(k.review.files) \subseteq 1..ForReviews.FilesMax
  BY <1>1 DEF Command, Review, R!Texts
<1> HIDE DEF nobody
<1>5. /\ Command(next) /\ next.step = "keeping" /\ next.todo = R!Texts(k.review.files)
      /\ next.review = k.review /\ next.alone = nobody /\ next.steady = k.steady
  BY <1>1, <1>4 DEF Command
<1>6. ASSUME NEW d \in ForReviews.Clients
      PROVE  /\ Command(others(d)) /\ others(d).step = reviewer[d].step /\ others(d).todo = reviewer[d].todo
             /\ others(d).review = reviewer[d].review /\ others(d).steady = reviewer[d].steady
             /\ ~others(d).alone
  BY <1>1 DEF Reviewing, Command
<1> HIDE DEF next, others
<1>7. /\ DOMAIN reviewer' = ForReviews.Clients /\ reviewer'[c] = next
      /\ \A d \in ForReviews.Clients : d # c => reviewer'[d] = others(d)
  BY <1>2
<1>8. DOMAIN sides' = (1..ForReviews.FilesMax) \X R!Sides
  BY <1>2, NoSidesAreAllEmpty
<1>9. Reviewing'
  BY <1>1, <1>2, <1>5, <1>6, <1>7, <1>8 DEF Reviewing, R!Sides, Command, Review
<1>10. ASSUME NEW d \in ForReviews.Clients PROVE Listed(reviewer[d])'
  <2>1. Listed(next)
    BY <1>1, <1>2, <1>5 DEF Listed
  <2>2. Listed(others(d))
    BY <1>1, <1>6 DEF Listed
  <2> QED BY <1>2, <1>7, <2>1, <2>2, ListedAsBefore
<1>11. ASSUME NEW d \in ForReviews.Clients PROVE Keeping(d)'
  <2>1. CASE d # c
    BY <1>1, <1>6, <1>7, <2>1 DEF Keeping
  <2>2. CASE d = c
    <3>1. Filled(reviewer[c])'
      <4>1. ASSUME NEW i \in 1..ForReviews.FilesMax, NEW s \in R!Sides PROVE sides'[<<i, s>>] = 0
        BY <1>2, NoSidesAreAllEmpty
      <4>2. reviewer'[c].todo = R!Texts(reviewer'[c].review.files)
        BY <1>5, <1>7
      <4>3. ASSUME NEW i \in 1..ForReviews.FilesMax, NEW s \in R!Sides
            PROVE  sides'[<<i, s>>] =
                     IF i \in R!Texts(reviewer'[c].review.files) /\ i \notin reviewer'[c].todo
                     THEN reviewer'[c].review.files[i][s] ELSE 0
        BY <4>1, <4>2
      <4> QED BY <4>3, Zenon DEF Filled
    <3>2. nobody => \A e \in ForReviews.Clients : e # c => reviewer'[e].step # "keeping"
      BY <1>6, <1>7 DEF nobody
    <3> QED BY <1>5, <1>7, <2>2, <3>1, <3>2 DEF Keeping
  <2> QED BY <2>1, <2>2
<1> QED BY <1>9, <1>10, <1>11 DEF InOrder

(* One file's sides are kept, as those of the files before it.             *)
LEMMA KeepsWhole ==
  ASSUME Whole, NEW c \in ForReviews.Clients, NEW i \in 1..ForReviews.FilesMax, R!Keeps(c, i)
  PROVE  InOrder'
<1> DEFINE k == reviewer[c]
           next == [k EXCEPT !.todo = @ \ {i}]
           file1 == k.review.files[i]
<1>1. Reviewing /\ Command(k) /\ \A d \in ForReviews.Clients : Listed(reviewer[d]) /\ Keeping(d)
  BY DEF Whole, InOrder, Reviewing
<1>2. /\ k.step = "keeping" /\ i \in k.todo
      /\ reviewer' = [reviewer EXCEPT ![c].todo = @ \ {i}]
      /\ UNCHANGED <<branchAt, checkedOut, tracking, reviewShown, sent>>
  BY DEF R!Keeps, R!At
<1>3. sides' = [at \in DOMAIN sides |->
                  IF at = <<i, "a">> /\ file1.a # 0 THEN file1.a
                  ELSE IF at = <<i, "b">> /\ file1.b # 0 THEN file1.b ELSE sides[at]]
  BY Zenon DEF R!Keeps
<1>4. /\ Command(next) /\ next.step = "keeping" /\ next.todo = k.todo \ {i}
      /\ next.review = k.review /\ next.alone = k.alone /\ next.steady = k.steady
  BY <1>1, <1>2 DEF Command
<1>5. /\ DOMAIN reviewer' = ForReviews.Clients /\ reviewer'[c] = next
      /\ \A d \in ForReviews.Clients : d # c => reviewer'[d] = reviewer[d]
  BY <1>1, <1>2 DEF Reviewing
<1> HIDE DEF next
<1>6. Reviewing'
  BY <1>1, <1>2, <1>3, <1>4, <1>5 DEF Reviewing, R!Sides, Command, Review
<1>7. ASSUME NEW d \in ForReviews.Clients PROVE Listed(reviewer[d])'
  <2>1. Listed(next)
    BY <1>1, <1>2, <1>4 DEF Listed
  <2> QED BY <1>1, <1>2, <1>5, <2>1, ListedAsBefore
<1>8. ASSUME NEW d \in ForReviews.Clients PROVE Keeping(d)'
  <2>1. CASE d # c
    <3>1. reviewer[d].alone => reviewer[d].step # "keeping" /\ reviewer[d].step # "kept"
      BY <1>1, <1>2, <2>1 DEF Keeping
    <3> QED BY <1>1, <1>5, <2>1, <3>1 DEF Keeping
  <2>2. CASE d = c
    <3>1. k.todo \subseteq R!Texts(k.review.files) /\ i \in R!Texts(k.review.files)
      BY <1>1, <1>2 DEF Keeping
    <3>2. ASSUME Filled(k) PROVE Filled(reviewer[c])'
      <4>1. ASSUME NEW j \in 1..ForReviews.FilesMax, NEW s \in R!Sides
            PROVE  sides'[<<j, s>>] = IF j \in R!Texts(k.review.files) /\ j \notin next.todo
                                      THEN k.review.files[j][s] ELSE 0
        <5>1. s \in {"a", "b"} /\ <<j, s>> \in DOMAIN sides
          BY <1>1 DEF Reviewing, R!Sides
        <5>2. sides[<<j, s>>] = IF j \in R!Texts(k.review.files) /\ j \notin k.todo
                                THEN k.review.files[j][s] ELSE 0
          BY <3>2 DEF Filled
        <5>3. CASE j # i
          <6>1. sides'[<<j, s>>] = sides[<<j, s>>]
            BY <1>3, <5>1, <5>3
          <6> QED BY <1>4, <5>2, <5>3, <6>1
        <5>4. CASE j = i
          <6>1. sides[<<j, s>>] = 0
            BY <1>2, <5>2, <5>4
          <6>2. sides'[<<j, s>>] = file1[s]
            BY <1>3, <5>1, <5>4, <6>1
          <6> QED BY <1>4, <3>1, <5>4, <6>2
        <5> QED BY <5>3, <5>4
      <4>2. reviewer'[c].todo = next.todo /\ reviewer'[c].review = k.review
        BY <1>4, <1>5
      <4>3. ASSUME NEW j \in 1..ForReviews.FilesMax, NEW s \in R!Sides
            PROVE  sides'[<<j, s>>] =
                     IF j \in R!Texts(reviewer'[c].review.files) /\ j \notin reviewer'[c].todo
                     THEN reviewer'[c].review.files[j][s] ELSE 0
        BY <4>1, <4>2
      <4> QED BY <4>3, Zenon DEF Filled
    <3> QED BY <1>1, <1>2, <1>4, <1>5, <2>2, <3>1, <3>2 DEF Keeping
  <2> QED BY <2>1, <2>2
<1> QED BY <1>6, <1>7, <1>8 DEF InOrder

LEMMA ShowsWhole ==
  ASSUME Whole, NEW c \in ForReviews.Clients, R!Shows(c)
  PROVE  InOrder'
<1>1. Reviewing /\ \A d \in ForReviews.Clients : Listed(reviewer[d]) /\ Keeping(d)
  BY DEF Whole, InOrder, World
<1>2. /\ DOMAIN reviewer' = ForReviews.Clients /\ reviewer'[c] = R!Idle
      /\ \A d \in ForReviews.Clients : d # c => reviewer'[d] = reviewer[d]
      /\ sent' = R!NoPush /\ UNCHANGED <<branchAt, checkedOut, tracking, sides>>
  BY <1>1 DEF R!Shows, Reviewing
<1>3. Command(R!Idle) /\ R!Idle.step = "idle"
  BY DEF R!Idle, R!NoReview, Command, Review
<1>4. Reviewing'
  BY <1>1, <1>2, <1>3 DEF Reviewing, R!Sides, R!NoPush, Command, Review
<1>5. ASSUME NEW d \in ForReviews.Clients PROVE Listed(reviewer[d])'
  <2>1. Listed(R!Idle)
    BY <1>3 DEF Listed
  <2> QED BY <1>1, <1>2, <2>1, ListedAsBefore
<1>6. ASSUME NEW d \in ForReviews.Clients PROVE Keeping(d)'
  <2>1. CASE d # c
    BY <1>1, <1>2, <1>3, <2>1, KeepingAsBefore
  <2>2. CASE d = c
    BY <1>2, <1>3, <2>2 DEF Keeping
  <2> QED BY <2>1, <2>2
<1> QED BY <1>4, <1>5, <1>6 DEF InOrder

(* Whatever else moves, no review is steady any more.                      *)
LEMMA MovesWhole ==
  ASSUME Whole, R!Moves
  PROVE  InOrder'
<1> DEFINE other(d) == [reviewer[d] EXCEPT !.steady = FALSE]
<1>1. Reviewing /\ \A d \in ForReviews.Clients : Keeping(d)
  BY DEF Whole, InOrder, World
<1>2. /\ reviewer' = [d \in ForReviews.Clients |-> other(d)]
      /\ UNCHANGED <<sides, sent>>
  BY Zenon DEF R!Moves, R!Unsteady
<1>3. ASSUME NEW d \in ForReviews.Clients
      PROVE  /\ Command(other(d)) /\ other(d).step = reviewer[d].step /\ other(d).todo = reviewer[d].todo
             /\ other(d).review = reviewer[d].review /\ other(d).alone = reviewer[d].alone
             /\ ~other(d).steady
  BY <1>1 DEF Reviewing, Command
<1> HIDE DEF other
<1>4. DOMAIN reviewer' = ForReviews.Clients /\ \A d \in ForReviews.Clients : reviewer'[d] = other(d)
  BY <1>2
<1>5. Reviewing'
  BY <1>1, <1>2, <1>3, <1>4 DEF Reviewing, R!Sides, Command, Review
<1>6. ASSUME NEW d \in ForReviews.Clients PROVE Listed(reviewer[d])'
  BY <1>3, <1>4 DEF Listed
<1>7. ASSUME NEW d \in ForReviews.Clients PROVE Keeping(d)'
  <2>1. ASSUME Filled(reviewer[d]) PROVE Filled(reviewer[d])'
    <3>1. UNCHANGED sides /\ reviewer'[d].todo = reviewer[d].todo /\ reviewer'[d].review = reviewer[d].review
      BY <1>2, <1>3, <1>4
    <3> QED BY <2>1, <3>1, Zenon DEF Filled
  <2> QED BY <1>1, <1>3, <1>4, <2>1 DEF Keeping
<1> QED BY <1>5, <1>6, <1>7 DEF InOrder

LEMMA WholeStep == ASSUME Whole, [R!Next]_R!vars PROVE Whole'
<1>1. Repository'
  BY RepositoryStep DEF Whole
<1>2. ASSUME NEW c \in ForReviews.Clients,
             \/ R!Begin(c) \/ R!ReadHead(c) \/ R!ReadBranch(c) \/ R!ReadBase(c) \/ R!Count(c) \/ R!Diff(c)
             \/ R!GivesUp(c) \/ R!Empties(c) \/ R!Killed(c) \/ R!Kept(c) \/ R!Shows(c) \/ R!Prints(c)
             \/ \E i \in 1..ForReviews.FilesMax : R!Keeps(c, i)
      PROVE  InOrder'
  BY <1>2, GoesOnWhole, EmptiesWhole, KeepsWhole, ShowsWhole
<1>3. ASSUME R!AgentCommits \/ R!AgentSwitches \/ R!AgentDetaches \/ R!Fetches PROVE InOrder'
  <2>1. R!Moves
    BY <1>3, Zenon DEF R!AgentCommits, R!AgentSwitches, R!AgentDetaches, R!Fetches
  <2> QED BY <2>1, MovesWhole
<1>4. ASSUME R!Pushes \/ UNCHANGED R!vars PROVE InOrder'
  <2>1. UNCHANGED <<checkedOut, tracking, reviewer, sides>>
    BY <1>4, Zenon DEF R!Pushes, R!vars
  <2>2. sent' = sent \/ sent'.branch \in ForReviews.Branches
    BY <1>4 DEF R!Pushes, R!vars, Whole, Repository
  <2>3. Reviewing'
    BY <2>1, <2>2 DEF Whole, InOrder, Reviewing, R!Sides, Command, Review
  <2>4. ASSUME NEW d \in ForReviews.Clients PROVE Listed(reviewer[d])'
    BY <2>1, ListedAsBefore DEF Whole, InOrder
  <2>5. ASSUME NEW d \in ForReviews.Clients PROVE Keeping(d)'
    BY <2>1, KeepingAsBefore DEF Whole, InOrder
  <2> QED BY <2>3, <2>4, <2>5 DEF InOrder
<1>5. InOrder'
  BY <1>2, <1>3, <1>4 DEF R!Next
<1> QED BY <1>1, <1>5 DEF Whole

LEMMA WholeInitially == R!Init => Whole
<1> SUFFICES ASSUME R!Init PROVE Whole
  OBVIOUS
<1>1. World
  BY WorldInitially
<1>2. \A c \in ForReviews.Clients : reviewer[c].step = "idle"
  BY DEF R!Init, R!Idle
<1>3. \A c \in ForReviews.Clients : Listed(reviewer[c]) /\ Keeping(c)
  BY <1>2 DEF Listed, Keeping
<1> QED BY <1>1, <1>3 DEF Whole, World, InOrder

LEMMA ReviewsInvariant == Spec => []Whole
BY ReviewsAlone, WholeInitially, WholeStep, PTL DEF R!Spec

(* A review of a project that stood still while it was read lists every    *)
(* commit and every path that GitHub has nowhere, or says there are more,  *)
(* and what is kept of one that is kept alone is what it lists and nothing *)
(* else (docker.ts reviewScript, review.ts keepReview).                    *)
THEOREM PartsReviewIsWhole == Spec => []ReviewIsWhole
<1>1. ASSUME Whole PROVE R!ReviewIsWhole
  <2> SUFFICES ASSUME NEW c \in ForReviews.Clients
               PROVE  /\ reviewer[c].step \in {"said", "keeping", "kept"} /\ reviewer[c].steady =>
                           R!MissesNothing(reviewer[c].review)
                      /\ reviewer[c].step = "kept" /\ reviewer[c].alone => R!IsKept(reviewer[c].review)
    BY DEF R!ReviewIsWhole
  <2>1. Listed(reviewer[c]) /\ Keeping(c)
    BY <1>1 DEF Whole, InOrder
  <2>2. CommitsListed(reviewer[c].review) /\ PathsListed(reviewer[c].review) =>
          R!MissesNothing(reviewer[c].review)
    BY DEF CommitsListed, PathsListed, Theirs, R!MissesNothing
  <2>3. ASSUME Filled(reviewer[c]), reviewer[c].todo = {} PROVE R!IsKept(reviewer[c].review)
    <3>1. ASSUME NEW i \in 1..ForReviews.FilesMax, NEW s \in R!Sides
          PROVE  sides[<<i, s>>] =
                   IF i \in R!Texts(reviewer[c].review.files) THEN reviewer[c].review.files[i][s] ELSE 0
      <4>1. sides[<<i, s>>] =
              IF i \in R!Texts(reviewer[c].review.files) /\ i \notin reviewer[c].todo
              THEN reviewer[c].review.files[i][s] ELSE 0
        BY <2>3, Zenon DEF Filled
      <4> QED BY <2>3, <4>1
    <3> QED BY <3>1, Zenon DEF R!IsKept
  <2> QED BY <2>1, <2>2, <2>3 DEF Listed, Keeping
<1> QED BY <1>1, ReviewsInvariant, PTL DEF ReviewIsWhole

LEMMA ReviewsTypeCorrect == Spec => []R!TypeOK
<1>1. Whole => R!TypeOK
  BY DEF Whole, InOrder, Reviewing, Repository, Command, R!TypeOK
<1> QED BY <1>1, ReviewsInvariant, PTL

-----------------------------------------------------------------------------
(* What every part keeps to.                                               *)
LEMMA PolicyTypeCorrect == Spec => []Y!TypeOK
<1> DEFINE Rest == target \in {"project", "nested", "worktree"} /\ edits \in 0..1
<1>1. Y!Init => Rest
  BY DEF Y!Init
<1>2. Rest /\ [Y!Next]_Y!vars => Rest'
  BY DEF Y!Next, Y!Write, Y!vars
<1>3. spec \in Y!Specs /\ Rest => Y!TypeOK
  BY DEF Y!TypeOK
<1> QED BY PolicyAlone, SpecsWellFormed, <1>1, <1>2, <1>3, PTL DEF Y!Spec

(* What answers a request leaves a call done, or with more to ask.         *)
LEMMA AnswersAre ==
  ASSUME NEW said \in {"0", "1", "busy"}, code \in {"0", "1", "busy"}, heard \in BOOLEAN, J!Answer(said)
  PROVE  stage' \in {"asked", "done"} /\ code' \in {"0", "1", "busy"} /\ heard' \in BOOLEAN
<1> DEFINE ended == J!Exit(said)
<1>1. ended \in {"0", "1", "busy"}
  BY DEF J!Exit
<1> HIDE DEF ended
<1> QED BY <1>1 DEF J!Answer, ended

LEMMA CallsTypeCorrect == Spec => []J!TypeOK
<1>1. J!Init => J!TypeOK
  BY DEF J!Init, J!TypeOK
<1>2. J!TypeOK /\ [J!Next]_J!vars => J!TypeOK'
  <2> SUFFICES ASSUME J!TypeOK, [J!Next]_J!vars PROVE J!TypeOK'
    OBVIOUS
  <2>1. CASE J!Client
    <3>1. stage' \in {"done", "asked"} /\ code' \in {"1", code}
      BY <2>1 DEF J!Client, J!Sends
    <3>2. UNCHANGED <<typed, everyName, tree, heard, cutOff, shaken>>
      BY <2>1, Zenon DEF J!Client
    <3> QED BY <3>1, <3>2 DEF J!TypeOK
  <2>2. ASSUME NEW said \in {"0", "1", "busy"}, J!Answer(said),
               UNCHANGED <<typed, everyName, tree, shaken>>, cutOff' \in BOOLEAN
        PROVE  J!TypeOK'
    BY <2>2, AnswersAre DEF J!TypeOK
  <2>3. CASE J!Unreachable \/ J!CutOff \/ J!BrokerRefuses \/ J!RunnerFails \/ J!Final
    <3>1. \E said \in {"0", "1", "busy"} : J!Answer(said)
      BY <2>3, Zenon DEF J!Unreachable, J!CutOff, J!BrokerRefuses, J!RunnerFails, J!Final
    <3>2. UNCHANGED <<typed, everyName, tree, shaken>> /\ cutOff' \in {cutOff, TRUE}
      BY <2>3 DEF J!Unreachable, J!CutOff, J!BrokerRefuses, J!RunnerFails, J!Final
    <3> QED BY <2>2, <3>1, <3>2 DEF J!TypeOK
  <2>4. CASE J!Broker
    <3>1. UNCHANGED <<typed, everyName, tree, cutOff, shaken>>
      BY <2>4, Zenon DEF J!Broker
    <3>2. J!Answer("1") \/ (stage' = "running" /\ UNCHANGED <<code, heard>>)
      BY <2>4, Zenon DEF J!Broker
    <3> QED BY <2>2, <3>1, <3>2 DEF J!TypeOK
  <2>5. CASE J!Runner
    <3>1. UNCHANGED <<typed, everyName, cutOff, shaken>>
      BY <2>5, Zenon DEF J!Runner
    <3>2. \/ J!Answer("1") /\ UNCHANGED tree
          \/ heard' = TRUE /\ UNCHANGED <<stage, code>> /\ tree' \in {"bare", "absent", "ready", tree}
      <4>1. PICK args : J!RunnerActs(args)
        BY <2>5, Zenon DEF J!Runner
      <4>2. J!RunnerDone(args) => tree' \in {"bare", "absent", "ready", tree}
        BY DEF J!RunnerDone
      <4> QED BY <4>1, <4>2, Zenon DEF J!RunnerActs
    <3> QED BY <2>2, <3>1, <3>2 DEF J!TypeOK
  <2>6. CASE J!AllComesOrGoes \/ UNCHANGED J!vars
    BY <2>6 DEF J!AllComesOrGoes, J!vars, J!TypeOK
  <2> QED BY <2>1, <2>3, <2>4, <2>5, <2>6 DEF J!Next
<1> QED BY CallsAlone, <1>1, <1>2, PTL DEF J!Spec

(* Every part that moves keeps to its types, whatever its constants are,   *)
(* from what the code and its tools guarantee of them.                     *)
THEOREM PartsTypeCorrect == Spec => []TypeOK
<1>1. Spec => [](K!TypeOK /\ S!TypeOK /\ T!TypeOK /\ A!TypeOK /\ N!TypeOK)
  <2>1. K!Spec => []K!TypeOK
    BY KeyringAssumption, K!KeyringTypeCorrect
  <2>2. S!Spec => []S!TypeOK
    BY StartsAssumption, S!StartsTypeCorrect
  <2>3. T!Spec => []T!TypeOK
    BY TransferAssumption, T!TransferTypeCorrect
  <2>4. N!Spec => []N!TypeOK
    BY NamesAssumption, NamesTypeCorrect
  <2> QED BY KeyringAlone, StartsAlone, TransferAlone, AdmissionAlone, NamesAlone,
             <2>1, <2>2, <2>3, <2>4, AdmissionTypeCorrect, PTL
<1>2. Spec => [](W!TypeOK /\ I!TypeOK /\ V!TypeOK /\ Z!TypeOK /\ E!TypeOK /\ D!TypeOK)
  <2>1. /\ W!Spec => []W!TypeOK
        /\ I!Spec => []I!TypeOK
    BY WorktreesAssumption, IngressAssumption, WorktreesTypeCorrect, IngressTypeCorrect
  <2>2. /\ V!Spec => []V!TypeOK
        /\ Z!Spec => []Z!TypeOK
    BY ViewsAssumption, PanelAssumption, ViewsTypeCorrect, PanelTypeCorrect
  <2>3. /\ E!Spec => []E!TypeOK
        /\ D!Spec => []D!TypeOK
    BY EgressAssumption, ProposalsAssumption, EgressTypeCorrect, ProposalsTypeCorrect
  <2> QED BY WorktreesAlone, IngressAlone, ViewsAlone, PanelAlone, EgressAlone, ProposalsAlone,
             <2>1, <2>2, <2>3, PTL
<1>3. /\ K!TypeOK /\ S!TypeOK /\ T!TypeOK /\ A!TypeOK /\ N!TypeOK
      /\ W!TypeOK /\ I!TypeOK /\ V!TypeOK /\ Z!TypeOK /\ E!TypeOK /\ D!TypeOK
      /\ Y!TypeOK /\ J!TypeOK /\ R!TypeOK
      => TypeOK
  BY DEF TypeOK
<1> QED BY <1>1, <1>2, <1>3, PolicyTypeCorrect, CallsTypeCorrect, ReviewsTypeCorrect, PTL
================================================================================

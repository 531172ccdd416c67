-------------------------------- MODULE Blog --------------------------------
(***************************************************************************)
(* Posts, their comments and tags, and the listings over them. Ids are     *)
(* given in order; a post's time is what the clock said, which may go back.*)
(* What a post says is one of a few texts.                                 *)
(***************************************************************************)
EXTENDS Integers, SequencesExt, Functions, Sorting

CONSTANTS Users, Tags, Texts, PostTimes,
          MaxPosts, MaxComments    \* bounds: ids given
VARIABLE blog

ASSUME BlogAssumption == PostTimes \subseteq Nat /\ MaxPosts \in Nat /\ MaxComments \in Nat

Posts == DOMAIN blog.posts
Comments == UNION {ToSet(blog.posts[p].comments) : p \in Posts}

\* sorted(..., reverse=True) keeps posts of one time in the order they were made.
Earlier(posts) ==
    {pair \in posts \X posts :
        LET p == blog.posts[pair[1]]    q == blog.posts[pair[2]]
        IN  p.time > q.time \/ (p.time = q.time /\ pair[1] < pair[2])}
LatestFirst(posts) == SortedBy(posts, Earlier(posts))
RecentPosts(count) == SubSeq(LatestFirst(Posts), 1, Min({count, Cardinality(Posts)}))
PostsByTag(tag) == LatestFirst({p \in Posts : tag \in blog.posts[p].tags})
AllTagsForUser(user) == UNION {blog.posts[p].tags : p \in {q \in Posts : blog.posts[q].author = user}}

IsAuthor(user, p) == blog.posts[p].author = user

-----------------------------------------------------------------------------
BlogInit == blog = [users |-> {}, posts |-> <<>>, nextPost |-> 1, nextComment |-> 1]

CreatePost(user, text, time) ==
    /\ blog.nextPost <= MaxPosts                                \* bound
    /\ LET post == [author |-> user, text |-> text, time |-> time, comments |-> <<>>, tags |-> {}]
       IN  blog' = [blog EXCEPT !.users = @ \cup {user}, !.nextPost = @ + 1,
                                !.posts = [p \in Posts \cup {blog.nextPost} |->
                                              IF p = blog.nextPost THEN post ELSE blog.posts[p]]]

EditPost(user, p, text) ==
    /\ IsAuthor(user, p)
    /\ blog' = [blog EXCEPT !.posts[p].text = text]

DeletePost(user, p) ==
    /\ IsAuthor(user, p)
    /\ blog' = [blog EXCEPT !.posts = Restrict(@, Posts \ {p})]

AddComment(user, p) ==
    /\ blog.nextComment <= MaxComments                          \* bound
    /\ blog' = [blog EXCEPT !.users = @ \cup {user}, !.nextComment = @ + 1,
                            !.posts[p].comments = Append(@, [id |-> blog.nextComment, author |-> user])]

DeleteComment(user, p, id) ==
    /\ [id |-> id, author |-> user] \in ToSet(blog.posts[p].comments)
    /\ blog' = [blog EXCEPT !.posts[p].comments = Filtered(@, {c \in ToSet(@) : c.id # id})]

AddTag(user, p, tag) ==
    /\ IsAuthor(user, p)
    /\ blog' = [blog EXCEPT !.posts[p].tags = @ \cup {tag}]

BlogNext ==
    \E user \in Users :
        \/ \E text \in Texts, time \in PostTimes : CreatePost(user, text, time)
        \/ \E p \in Posts :
              \/ \E text \in Texts : EditPost(user, p, text)
              \/ DeletePost(user, p)
              \/ AddComment(user, p)
              \/ \E c \in Comments : DeleteComment(user, p, c.id)
              \/ \E tag \in Tags : AddTag(user, p, tag)

BlogSpec == BlogInit /\ [][BlogNext]_blog

-----------------------------------------------------------------------------
BlogTypeOK ==
    /\ blog.users \subseteq Users
    /\ Posts \subseteq 1..MaxPosts
    /\ \A p \in Posts :
          /\ blog.posts[p].author \in Users /\ blog.posts[p].text \in Texts /\ blog.posts[p].time \in PostTimes
          /\ blog.posts[p].comments \in Seq([id : 1..MaxComments, author : Users])
          /\ blog.posts[p].tags \subseteq Tags

\* An id names one thing for ever, deletions or not; whoever wrote what is kept
\* is registered; no listing leaves out a later post for an earlier one; and
\* the tags of a user are those his posts are found by (blog.py:26-105).
ListingsAgree ==
    /\ \A p \in Posts : p < blog.nextPost
    /\ \A p, q \in Posts : \A i \in DOMAIN blog.posts[p].comments, j \in DOMAIN blog.posts[q].comments :
          LET c == blog.posts[p].comments[i]    d == blog.posts[q].comments[j]
          IN  c.id < blog.nextComment /\ (c.id = d.id => p = q /\ i = j)
    /\ {blog.posts[p].author : p \in Posts} \cup {c.author : c \in Comments} \subseteq blog.users
    /\ \A n \in 0..MaxPosts : LET recent == ToSet(RecentPosts(n)) IN
          \A p \in recent, q \in Posts \ recent : blog.posts[p].time >= blog.posts[q].time
    /\ \A user \in Users, tag \in Tags :
          tag \in AllTagsForUser(user) <=> \E p \in ToSet(PostsByTag(tag)) : IsAuthor(user, p)
=============================================================================

---------------------------- MODULE PreloadHooks ----------------------------
(***************************************************************************)
(* The LD_PRELOAD hooks (src/hooks.cpp): which of three allocators serves  *)
(* and takes back each pointer of the host program: the bootstrap buffer,  *)
(* libc, reached through dlsym, or the adaptive allocator.                 *)
(*                                                                         *)
(* The first malloc or calloc initialises the hooks in the middle of its   *)
(* own call: each of the four dlsym look-ups may itself allocate and free  *)
(* (the inner calls), and finds the hooks half way.  Start-up runs on one  *)
(* thread: libraries allocate before a program can create another.         *)
(***************************************************************************)
EXTENDS Integers, FiniteSets, FiniteSetsExt

CONSTANTS
  Libc, Adaptive,     \* addresses of the two heaps
  BufSize, Unit,      \* sizeof(bootstrap_buf), and the rounding of its objects
  HookSizes,          \* request sizes
  TableSize,          \* REAL_BOOTSTRAP_MAX
  Null

\* The buffer is static storage and both heaps put a header before a block, so
\* none of their blocks is in the buffer or right at its end.
ASSUME Layout ==
  /\ BufSize \in Nat /\ Unit \in Nat \ {0} /\ TableSize \in Nat \ {0}
  /\ HookSizes \subseteq Nat
  /\ Libc \cap Adaptive = {} /\ Null \notin Libc \cup Adaptive
  /\ (Libc \cup Adaptive) \cap (0 .. BufSize) = {}

Entries == <<"malloc", "free", "calloc", "realloc">>   \* the look-ups of hooks_init
Buffer == 0 .. BufSize - 1

VARIABLES
  hooks_initialized, bootstrap_active,
  real,               \* the entry points resolved so far
  found,              \* dlsym finds libc
  bootstrap_offset,
  table,              \* real_bootstrap_ptrs
  held,               \* objects given out and not freed: address, size, by an inner call?
  first,              \* the first call: kind, size, and the look-up it is at (5: all done)
  misrouted,          \* an allocator was given a pointer of another one
  dropped             \* pointers the program freed and no allocator took back

start == <<hooks_initialized, bootstrap_active, real, first>>
vars == <<start, found, bootstrap_offset, table, held, misrouted, dropped>>

Inside == first.step \in 1 .. 4
Obj(p, size) == [at |-> p, size |-> size, inner |-> Inside]
Addresses(S) == {o.at : o \in S}

\* Inside hooks_init only dlsym runs, and it passes on only what it allocated.
Reach == {o \in held : Inside => o.inner}

Init ==
  /\ hooks_initialized = FALSE /\ bootstrap_active = TRUE
  /\ real = {} /\ found \in BOOLEAN /\ bootstrap_offset = 0
  /\ table = [i \in 1 .. TableSize |-> Null]
  /\ held = {} /\ first = [step |-> 0, kind |-> "none", size |-> 0]
  /\ misrouted = FALSE /\ dropped = {}

----------------------------------------------------------------------------
(* The three allocators.  `rest' is what the program holds besides the new  *)
(* object; a refused request leaves it with what it had.                    *)

Rounded(size) == ((size + Unit - 1) \div Unit) * Unit

bootstrap_malloc(size, rest) ==
  IF bootstrap_offset + Rounded(size) > BufSize
  THEN UNCHANGED <<bootstrap_offset, held>>
  ELSE /\ bootstrap_offset' = bootstrap_offset + Rounded(size)
       /\ held' = rest \cup {Obj(bootstrap_offset, size)}

Unused(heap) == heap \ (Addresses(held) \cup dropped)

adaptive_malloc(size, rest) ==
  /\ \/ held' = held
     \/ \E p \in Unused(Adaptive) : held' = rest \cup {Obj(p, size)}
  /\ UNCHANGED bootstrap_offset

----------------------------------------------------------------------------
(* The table of libc pointers                                               *)

real_bootstrap_track(ptr) ==
  LET room == {i \in DOMAIN table : table[i] = Null}
  IN IF room = {} THEN table ELSE [table EXCEPT ![Min(room)] = ptr]

Tracked(ptr) == \E i \in DOMAIN table : table[i] = ptr

real_bootstrap_replace(old_ptr, new_ptr) ==
  [table EXCEPT ![Min({i \in DOMAIN table : table[i] = old_ptr})] = new_ptr]

\* Mutant: the entry stays.
UntrackForgets(ptr) == table
real_bootstrap_untrack(ptr) == real_bootstrap_replace(ptr, Null)

----------------------------------------------------------------------------
(* hooks_init, inside the first malloc or calloc                            *)

FirstCall(kind, size) ==
  /\ ~ hooks_initialized
  /\ hooks_initialized' = TRUE
  /\ first' = [step |-> 1, kind |-> kind, size |-> size]
  /\ UNCHANGED <<bootstrap_active, real, found, bootstrap_offset, table, held, misrouted, dropped>>

hooks_init ==
  /\ Inside
  /\ real' = IF found THEN real \cup {Entries[first.step]} ELSE real
  /\ first' = [first EXCEPT !.step = @ + 1]
  /\ UNCHANGED <<hooks_initialized, bootstrap_active, found, bootstrap_offset, table, held,
                 misrouted, dropped>>

\* The rest of the first call: libc serves it, and its pointer is remembered.
FirstCallEnds ==
  /\ first.step = 5
  /\ first' = [first EXCEPT !.step = 6]
  /\ IF first.kind \in real
     THEN /\ bootstrap_active' = FALSE
          /\ \/ UNCHANGED <<held, table>>
             \/ \E p \in Unused(Libc) :
                  held' = held \cup {Obj(p, first.size)} /\ table' = real_bootstrap_track(p)
          /\ UNCHANGED bootstrap_offset
     ELSE bootstrap_malloc(first.size, held) /\ UNCHANGED <<bootstrap_active, table>>
  /\ UNCHANGED <<hooks_initialized, real, found, misrouted, dropped>>

----------------------------------------------------------------------------
(* The hooks once hooks_initialized is set, by the program or by dlsym      *)

Ready == first.step # 5

malloc(size, rest) ==
  IF bootstrap_active THEN bootstrap_malloc(size, rest) ELSE adaptive_malloc(size, rest)

\* malloc and calloc, which only adds the clearing.  dlsym asks for its error
\* record, never for 0 bytes: those would be placed at the end of a buffer that
\* is exactly full, where free no longer recognises them.
Malloc(size) ==
  /\ hooks_initialized /\ Ready
  /\ Inside => size > 0
  /\ malloc(size, held)
  /\ UNCHANGED <<start, found, table, misrouted, dropped>>

memalign(size) == \* and posix_memalign, aligned_alloc
  /\ ~ Inside /\ Ready
  /\ adaptive_malloc(size, held)
  /\ UNCHANGED <<start, found, table, misrouted, dropped>>

\* real_free(ptr) if it is resolved; if not, nobody takes the pointer back.
GiveToLibc(ptr) ==
  IF "free" \in real
  THEN misrouted' = (misrouted \/ ptr \notin Libc) /\ UNCHANGED dropped
  ELSE dropped' = dropped \cup {ptr} /\ UNCHANGED misrouted

\* Mutant: pointers into the buffer are not singled out.
FreeWithoutBuffer(o) ==
  LET ptr == o.at
  IN /\ held' = held \ {o}
     /\ IF ~ hooks_initialized \/ bootstrap_active
        THEN GiveToLibc(ptr) /\ UNCHANGED table
        ELSE IF Tracked(ptr)
        THEN GiveToLibc(ptr) /\ table' = real_bootstrap_untrack(ptr)
        ELSE /\ misrouted' = (misrouted \/ ptr \notin Adaptive)
             /\ UNCHANGED <<table, dropped>>

free(o) ==
  LET ptr == o.at
  IN /\ held' = held \ {o}
     /\ IF ptr \in Buffer THEN UNCHANGED <<table, misrouted, dropped>>
        ELSE IF ~ hooks_initialized \/ bootstrap_active
        THEN GiveToLibc(ptr) /\ UNCHANGED table
        ELSE IF Tracked(ptr)
        THEN GiveToLibc(ptr) /\ table' = real_bootstrap_untrack(ptr)
        ELSE /\ misrouted' = (misrouted \/ ptr \notin Adaptive)
             /\ UNCHANGED <<table, dropped>>

Free(o) == Ready /\ free(o) /\ UNCHANGED <<start, found, bootstrap_offset>>

\* libc or the adaptive allocator resizes o, in place or elsewhere, or refuses.
Resized(o, size, heap) ==
  \/ UNCHANGED <<held, table>>
  \/ \E p \in Unused(heap) \cup {o.at} :
       /\ held' = (held \ {o}) \cup {Obj(p, size)}
       /\ table' = IF Tracked(o.at) THEN real_bootstrap_replace(o.at, p) ELSE table

Realloc(o, size) ==
  /\ Ready
  /\ IF size = 0 THEN free(o) /\ UNCHANGED bootstrap_offset
     ELSE IF o.at \in Buffer
     THEN malloc(size, held \ {o}) /\ UNCHANGED <<table, misrouted, dropped>>
     ELSE IF (~ hooks_initialized \/ bootstrap_active) /\ "realloc" \notin real
     THEN UNCHANGED <<held, table, misrouted, dropped, bootstrap_offset>>
     ELSE LET libc == ~ hooks_initialized \/ bootstrap_active \/ Tracked(o.at)
          IN /\ Resized(o, size, IF libc THEN Libc ELSE Adaptive)
             /\ misrouted' = (misrouted \/ o.at \notin (IF libc THEN Libc ELSE Adaptive))
             /\ UNCHANGED <<dropped, bootstrap_offset>>
  /\ UNCHANGED <<start, found>>

Next ==
  \/ \E size \in HookSizes :
       \/ \E kind \in {"malloc", "calloc"} : FirstCall(kind, size)
       \/ Malloc(size) \/ memalign(size)
       \/ \E o \in Reach : Realloc(o, size)
  \/ \E o \in Reach : Free(o)
  \/ hooks_init \/ FirstCallEnds

Spec == Init /\ [][Next]_vars

----------------------------------------------------------------------------
(* Properties                                                               *)

\* Whatever order the program and dlsym call the hooks in, neither libc nor the
\* adaptive allocator is ever asked to free or resize a pointer of the other
\* one or of the bootstrap buffer.
RoutedHome == ~ misrouted

\* The table holds exactly the libc pointers the program still owns: a pointer
\* missing from it would be freed into the wrong heap, a stale one would send a
\* later owner of the address to libc.
TableExact == {table[i] : i \in DOMAIN table} \ {Null} = Addresses(held) \cap Libc
=============================================================================

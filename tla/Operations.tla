----------------------------- MODULE Operations -----------------------------
(***************************************************************************)
(* The operations of the server as the frontend calls them: one definition *)
(* for each operation of the client in ui/v1/src/lib/sdk/apis, and what the *)
(* server asks before it runs their handlers (internal/server/server.go).   *)
(*                                                                         *)
(* An operation is a method and a path, "*" where a parameter goes into the *)
(* path. bearer: the access token of the configuration, if it has one, is  *)
(* sent along. needs: parameters without which it fails before a request   *)
(* is sent. Bodies, queries and the decoding of answers are left out: no   *)
(* property tells them apart.                                              *)
(***************************************************************************)
EXTENDS Integers, Sequences

\* An operation that sends the access token, and one that does not.
Signed(method, path, needs) ==
  [method |-> method, path |-> path, needs |-> needs, bearer |-> TRUE]

Open(method, path, needs) ==
  [method |-> method, path |-> path, needs |-> needs, bearer |-> FALSE]

-----------------------------------------------------------------------------
\* Administration of the instance (AdminApi).

blockUser ==
  Signed("PUT", <<"v1", "admin", "users", "*", "block">>, {"userId", "blockUserRequest"})
createBackup == Signed("POST", <<"v1", "admin", "backups">>, {})
createPasswordReset ==
  Signed("POST", <<"v1", "admin", "users", "*", "password-reset">>, {"userId"})
deleteUser == Signed("DELETE", <<"v1", "admin", "users", "*">>, {"userId"})
downloadBackup == Signed("GET", <<"v1", "admin", "backup">>, {})
downloadStoredBackup == Signed("GET", <<"v1", "admin", "backups", "*">>, {"name"})
getAdminOverview == Signed("GET", <<"v1", "admin", "overview">>, {})
getAllUsers == Signed("GET", <<"v1", "admin", "users">>, {})
getBackups == Signed("GET", <<"v1", "admin", "backups">>, {})
getInstance == Signed("GET", <<"v1", "admin", "instance">>, {})
getReports == Signed("GET", <<"v1", "admin", "reports">>, {})
resolveReport ==
  Signed("POST", <<"v1", "admin", "reports", "*", "resolve">>,
         {"reportId", "resolveReportRequest"})
restoreBackup == Signed("POST", <<"v1", "admin", "backup", "restore">>, {"body"})
unblockUser == Signed("DELETE", <<"v1", "admin", "users", "*", "block">>, {"userId"})

-----------------------------------------------------------------------------
\* The instance itself (AppApi).

featureFlags == Signed("GET", <<"app", "config", "features">>, {})
getLegalPage == Open("GET", <<"app", "legal", "*">>, {"page"})
health == Open("GET", <<"health">>, {})

-----------------------------------------------------------------------------
\* Signing in and out (AuthenticationApi).

changePassword == Signed("POST", <<"auth", "password">>, {"changePasswordRequest"})
completeSetup == Signed("POST", <<"auth", "setup">>, {"completeSetupRequest"})
getPasswordReset == Open("GET", <<"auth", "password-reset", "*">>, {"token"})
getRegistrationInvite == Open("GET", <<"auth", "invites", "*">>, {"token"})
login == Signed("POST", <<"auth", "login">>, {"loginRequest"})
logout == Signed("POST", <<"auth", "logout">>, {})
logoutAll == Signed("GET", <<"auth", "logout", "all">>, {})
refresh == Signed("POST", <<"auth", "refresh">>, {})
register == Signed("POST", <<"auth", "register">>, {"registerRequest"})
requestPasswordReset ==
  Open("POST", <<"auth", "password-reset">>, {"requestPasswordResetRequest"})
resetPassword ==
  Open("POST", <<"auth", "password-reset", "*">>, {"token", "resetPasswordRequest"})
verifyEmail == Open("POST", <<"auth", "verify-email", "*">>, {"token"})

-----------------------------------------------------------------------------
\* Links (BookmarkApi).

addFavorite == Signed("PUT", <<"v1", "bookmarks", "*", "favorite">>, {"bookmarkId"})
createBookmark ==
  Signed("POST", <<"v1", "collections", "*", "bookmarks">>,
         {"collectionId", "createBookmarkDto"})
deleteBookmark == Signed("DELETE", <<"v1", "bookmarks", "*">>, {"bookmarkId"})
fetchBookmarkMetadata ==
  Signed("POST", <<"v1", "collections", "*", "bookmarks", "metadata">>,
         {"collectionId", "fetchMetadataRequest"})
getBookmark == Signed("GET", <<"v1", "bookmarks", "*">>, {"bookmarkId"})
getBookmarks == Signed("GET", <<"v1", "collections", "*", "bookmarks">>, {"collectionId"})
getFavorites == Signed("GET", <<"v1", "spaces", "*", "favorites">>, {"spaceId"})
getRecentBookmarks == Signed("GET", <<"v1", "spaces", "*", "bookmarks">>, {"spaceId"})
lookupBookmarks ==
  Signed("GET", <<"v1", "spaces", "*", "bookmarks", "lookup">>, {"spaceId", "url"})
removeFavorite == Signed("DELETE", <<"v1", "bookmarks", "*", "favorite">>, {"bookmarkId"})
resetBookmarkImage ==
  Signed("DELETE", <<"v1", "bookmarks", "*", "image">>, {"bookmarkId"})
searchBookmarks ==
  Signed("GET", <<"v1", "spaces", "*", "bookmarks", "search">>, {"spaceId", "q"})
setBookmarkImage == Signed("PUT", <<"v1", "bookmarks", "*", "image">>, {"bookmarkId"})
setReaction ==
  Signed("PUT", <<"v1", "bookmarks", "*", "reactions">>, {"bookmarkId", "setReactionDto"})
updateBookmark ==
  Signed("PUT", <<"v1", "bookmarks", "*">>, {"bookmarkId", "updateBookmarkDto"})

-----------------------------------------------------------------------------
\* Collections (CollectionApi).

createCollection ==
  Signed("POST", <<"v1", "spaces", "*", "collections">>,
         {"spaceId", "createCollectionDto"})
deleteCollection == Signed("DELETE", <<"v1", "collections", "*">>, {"collectionId"})
exportCollection ==
  Signed("GET", <<"v1", "collections", "*", "export">>, {"collectionId"})
getCollection == Signed("GET", <<"v1", "collections", "*">>, {"collectionId"})
getCollectionAccess ==
  Signed("GET", <<"v1", "collections", "*", "access">>, {"collectionId"})
getCollectionShare ==
  Signed("GET", <<"v1", "collections", "*", "share">>, {"collectionId"})
getCollections == Signed("GET", <<"v1", "spaces", "*", "collections">>, {"spaceId"})
importCollection ==
  Signed("POST", <<"v1", "collections", "*", "import">>, {"collectionId", "body"})
lockCollection == Signed("PUT", <<"v1", "collections", "*", "lock">>, {"collectionId"})
markCollectionSeen ==
  Signed("POST", <<"v1", "collections", "*", "seen">>, {"collectionId"})
moveCollection ==
  Signed("POST", <<"v1", "collections", "*", "move">>,
         {"collectionId", "moveCollectionDto"})
shareCollection == Signed("PUT", <<"v1", "collections", "*", "share">>, {"collectionId"})
unlockCollection ==
  Signed("DELETE", <<"v1", "collections", "*", "lock">>, {"collectionId"})
unshareCollection ==
  Signed("DELETE", <<"v1", "collections", "*", "share">>, {"collectionId"})
updateCollection ==
  Signed("PUT", <<"v1", "collections", "*">>, {"collectionId", "updateCollectionDto"})
updateCollectionAccess ==
  Signed("PUT", <<"v1", "collections", "*", "access">>,
         {"collectionId", "updateCollectionAccessDto"})

-----------------------------------------------------------------------------
\* The home page of a space (DashboardApi).

getDashboard == Signed("GET", <<"v1", "spaces", "*", "dashboard">>, {"spaceId"})
resetDashboard == Signed("DELETE", <<"v1", "spaces", "*", "dashboard">>, {"spaceId"})
updateDashboard ==
  Signed("PUT", <<"v1", "spaces", "*", "dashboard">>, {"spaceId", "updateDashboardDto"})

-----------------------------------------------------------------------------
\* Images (ImageApi).

getImage == Open("GET", <<"v1", "images", "*">>, {"imageId"})

-----------------------------------------------------------------------------
\* Invites (InviteApi).

acceptInvite == Signed("POST", <<"v1", "invites", "*">>, {"token"})
createInvite == Signed("POST", <<"v1", "invites">>, {"createInviteRequest"})
deleteInvite == Signed("DELETE", <<"v1", "invites", "*">>, {"token"})
getInvite == Signed("GET", <<"v1", "invites", "*">>, {"token"})
getInvites == Signed("GET", <<"v1", "invites">>, {})
getSpaceInvites == Signed("GET", <<"v1", "spaces", "*", "invites">>, {"spaceId"})

-----------------------------------------------------------------------------
\* Public links (ShareApi).

getSharedCollection == Signed("GET", <<"v1", "shares", "*">>, {"token"})
reportShare ==
  Open("POST", <<"v1", "shares", "*", "reports">>, {"token", "createReportRequest"})

-----------------------------------------------------------------------------
\* Spaces, their members and their trash (SpaceApi).

createSpace == Signed("POST", <<"v1", "spaces">>, {"createSpaceDto"})
deleteSpace == Signed("DELETE", <<"v1", "spaces", "*">>, {"spaceId"})
discoverSpaces == Signed("GET", <<"v1", "spaces", "discover">>, {})
getSpace == Signed("GET", <<"v1", "spaces", "*">>, {"spaceId"})
getSpaceMembers == Signed("GET", <<"v1", "spaces", "*", "members">>, {"spaceId"})
getSpaceNews == Signed("GET", <<"v1", "spaces", "*", "news">>, {"spaceId"})
getSpaceTags == Signed("GET", <<"v1", "spaces", "*", "tags">>, {"spaceId"})
getSpaces == Signed("GET", <<"v1", "spaces">>, {})
getTrash == Signed("GET", <<"v1", "spaces", "*", "trash">>, {"spaceId"})
joinSpace == Signed("POST", <<"v1", "spaces", "*", "join">>, {"spaceId"})
leaveSpace == Signed("POST", <<"v1", "spaces", "*", "leave">>, {"spaceId"})
markSpaceSeen == Signed("POST", <<"v1", "spaces", "*", "seen">>, {"spaceId"})
markSpaceWelcomed == Signed("POST", <<"v1", "spaces", "*", "welcomed">>, {"spaceId"})
purgeTrash ==
  Signed("POST", <<"v1", "spaces", "*", "trash", "purge">>,
         {"spaceId", "trashSelectionDto"})
removeSpaceIcon == Signed("DELETE", <<"v1", "spaces", "*", "icon">>, {"spaceId"})
removeSpaceMember ==
  Signed("DELETE", <<"v1", "spaces", "*", "members", "*">>, {"spaceId", "userId"})
restoreFromTrash ==
  Signed("POST", <<"v1", "spaces", "*", "trash", "restore">>,
         {"spaceId", "trashSelectionDto"})
setSpaceIcon == Signed("PUT", <<"v1", "spaces", "*", "icon">>, {"spaceId"})
updateSpace == Signed("PUT", <<"v1", "spaces", "*">>, {"spaceId", "updateSpaceDto"})
updateSpaceMember ==
  Signed("PUT", <<"v1", "spaces", "*", "members", "*">>,
         {"spaceId", "userId", "updateSpaceMemberDto"})

-----------------------------------------------------------------------------
\* The own account (UserApi).

deleteAccount ==
  Signed("POST", <<"v1", "users", "me", "delete">>, {"deleteAccountRequest"})
getSpaceBar == Signed("GET", <<"v1", "users", "me", "space-bar">>, {})
me == Signed("GET", <<"v1", "users", "me">>, {})
removeAvatar == Signed("DELETE", <<"v1", "users", "me", "avatar">>, {})
renewUnlock == Signed("POST", <<"v1", "users", "me", "unlock", "renew">>, {})
setAvatar == Signed("PUT", <<"v1", "users", "me", "avatar">>, {})
setDisplayName ==
  Signed("PUT", <<"v1", "users", "me", "display-name">>, {"displayNameDto"})
setPin == Signed("PUT", <<"v1", "users", "me", "pin">>, {"setPinDto"})
setStartSpace == Signed("PUT", <<"v1", "users", "me", "start-space">>, {"startSpaceDto"})
unlock == Signed("POST", <<"v1", "users", "me", "unlock">>, {"unlockRequest"})
updateSpaceBar == Signed("PUT", <<"v1", "users", "me", "space-bar">>, {"spaceBarDto"})

-----------------------------------------------------------------------------
\* All operations, by the class of the client they belong to.
AdminApi == {
   blockUser, createBackup, createPasswordReset, deleteUser,
   downloadBackup, downloadStoredBackup, getAdminOverview, getAllUsers,
   getBackups, getInstance, getReports, resolveReport, restoreBackup,
   unblockUser}

AppApi == {featureFlags, getLegalPage, health}

AuthenticationApi == {
   changePassword, completeSetup, getPasswordReset,
   getRegistrationInvite, login, logout, logoutAll, refresh, register,
   requestPasswordReset, resetPassword, verifyEmail}

BookmarkApi == {
   addFavorite, createBookmark, deleteBookmark, fetchBookmarkMetadata,
   getBookmark, getBookmarks, getFavorites, getRecentBookmarks,
   lookupBookmarks, removeFavorite, resetBookmarkImage, searchBookmarks,
   setBookmarkImage, setReaction, updateBookmark}

CollectionApi == {
   createCollection, deleteCollection, exportCollection, getCollection,
   getCollectionAccess, getCollectionShare, getCollections,
   importCollection, lockCollection, markCollectionSeen, moveCollection,
   shareCollection, unlockCollection, unshareCollection,
   updateCollection, updateCollectionAccess}

DashboardApi == {getDashboard, resetDashboard, updateDashboard}

ImageApi == {getImage}

InviteApi == {
   acceptInvite, createInvite, deleteInvite, getInvite, getInvites,
   getSpaceInvites}

ShareApi == {getSharedCollection, reportShare}

SpaceApi == {
   createSpace, deleteSpace, discoverSpaces, getSpace, getSpaceMembers,
   getSpaceNews, getSpaceTags, getSpaces, getTrash, joinSpace,
   leaveSpace, markSpaceSeen, markSpaceWelcomed, purgeTrash,
   removeSpaceIcon, removeSpaceMember, restoreFromTrash, setSpaceIcon,
   updateSpace, updateSpaceMember}

UserApi == {
   deleteAccount, getSpaceBar, me, removeAvatar, renewUnlock, setAvatar,
   setDisplayName, setPin, setStartSpace, unlock, updateSpaceBar}

AllOperations ==
  AdminApi \cup AppApi \cup AuthenticationApi \cup BookmarkApi \cup CollectionApi
  \cup DashboardApi \cup ImageApi \cup InviteApi \cup ShareApi \cup SpaceApi \cup UserApi

\* What can be used without being signed in.
publicPaths ==
  {<<"app", "config", "features">>,
   <<"auth", "register">>,
   <<"auth", "login">>,
   <<"auth", "refresh">>,
   <<"auth", "logout">>,
   <<"auth", "password-reset">>,
   <<"auth", "password-reset", "*">>,
   <<"auth", "verify-email", "*">>,
   <<"auth", "invites", "*">>,
   <<"v1", "images", "*">>,
   <<"v1", "shares", "*">>,
   <<"v1", "shares", "*", "reports">>,
   <<"app", "legal", "*">>,
   <<"health">>}

isPublic(op) == op.path \in publicPaths

\* The address of the operation contains "/auth/".
underAuth(op) == \E i \in 1..(Len(op.path) - 1) : op.path[i] = "auth"
=============================================================================
